---- MODULE Spec2Model ----
(***************************************************************************)
(* Authentication and session management of the pulse mobile client:      *)
(*   - AuthService   (credential store, login flow, token refresh),       *)
(*   - ApiClient     (axios request / response interceptors).             *)
(*                                                                         *)
(* JavaScript runs one callback at a time.  An async function runs        *)
(* without interruption up to its next await of an I/O operation; the     *)
(* I/O itself (a SecureStore read or write, a network request) is issued  *)
(* inside that uninterrupted run.  Every action below is one such run:    *)
(* it starts where an I/O operation completes and ends where the next     *)
(* ones have been issued.  SecureStore operations issued in one run       *)
(* (the members of one Promise.all) take effect together, in that run.    *)
(***************************************************************************)
EXTENDS Integers, Sequences, FiniteSets, TLC

\* ------------------------------------------------------------------ bounds

NumReq == 2         \* concurrent API calls
MaxTicks == 1       \* how often the clock advances
MaxIssued == 2      \* token payloads the refresh endpoint answers with
MaxLogins == 2      \* startLogin attempts of the login screen
MaxLinks == 1       \* deep-link events delivered to the root layout
NumCallers == 2     \* concurrent callers of the upload destination store
MaxIds == 2         \* destination ids drawn by addDestination

\* ------------------------------------------------------- program constants

\* SecureStore.getItemAsync resolves to null for a key that is not stored.
Null == 0
\* An axios config whose headers carry no Authorization entry.
NoAuth == -1
\* const EXPIRY_BUFFER_MS = 60 * 1000
EXPIRY_BUFFER_MS == 60 * 1000
\* Clock granularity of the model: Date.now() is read in steps of 30 s.
TickMs == 30 * 1000

Req == 1..NumReq

VARIABLES
  store,          \* SecureStore: one field per SECURE_STORE_KEYS entry
  now,            \* Date.now()
  req,            \* per API call: position, axios config, locals of the awaits
  isRefreshing,   \* ApiClient.js: let isRefreshing
  refreshQueue,   \* ApiClient.js: let refreshQueue (the waiting calls, in order)
  issued,         \* tokens the vault has issued so far (names the next one)
  refreshSent,    \* history: POSTs sent to {origin}/oauth/token/refresh, by
                  \*   who ran refreshToken(): getAccessToken or the recovery
  recoveryCalls,  \* history: refreshToken() calls made by the 401 recovery
  recoverySettled,\* history: of those, how many have returned or thrown
  flow,           \* per login flow: position and locals of the awaits
  tokenRequests,  \* history: POSTs sent to {origin}/oauth/token
  lastStored,     \* history: the payload storeTokens stored last
  issuer,         \* history: <<token, origin>> for every token an origin issued
  nativeId,       \* the platform's vendor / Android id (Null: it has none)
  uuidCount,      \* Crypto.randomUUID() values drawn by getDeviceId so far
  destinations,   \* AsyncStorage "upload_destinations": the stored list
  destOp,         \* per caller of the destination store: position and locals
  nextId,         \* Crypto.randomUUID() values drawn by addDestination so far
  call,           \* a direct call of an AuthService method: position, locals
  pkce            \* startLogin's PKCE values: random bytes, verifier, challenge

vars == <<store, now, req, isRefreshing, refreshQueue, issued,
          refreshSent, recoveryCalls, recoverySettled, flow, tokenRequests,
          lastStored, issuer, nativeId, uuidCount, destinations, destOp, nextId,
          call, pkce>>

\* the upload destination store
destVars == <<destinations, destOp, nextId>>
\* the authentication subsystem
authVars == <<store, now, req, isRefreshing, refreshQueue, issued,
              refreshSent, recoveryCalls, recoverySettled, flow, tokenRequests,
              lastStored, issuer, nativeId, uuidCount, call, pkce>>

\* what the API client's actions leave alone, and what the login flows do
loginVars == <<flow, tokenRequests>>
apiVars == <<req, isRefreshing, refreshQueue,
             refreshSent, recoveryCalls, recoverySettled>>

\* ------------------------------------------------------------ error values

NoErr == [kind |-> "none", by |-> 0]
\* The AxiosError of API call r's response (status and error code in kind).
ResponseError(kind, r) == [kind |-> kind, by |-> r]
\* The error refreshToken() threw while call r was running it.
RefreshError(kind, r) == [kind |-> kind, by |-> r]

\* ------------------------------------------------- AuthService: the store

\* vault URLs: origin o written with k trailing slashes
VaultUrl(o, k) == o * 10 + k
\* vaultUrl.replace(/\/$/, ''): strips one trailing slash
StripSlash(u) == IF u % 10 > 0 THEN u - 1 ELSE u

EmptyStore ==
  [vaultUrl |-> Null, codeVerifier |-> Null, state |-> Null,
   accessToken |-> Null, refreshToken |-> Null, expiry |-> Null,
   deviceId |-> Null]

\* The issuing record of a token response: origin answered with payload.
Issues(payload, origin) ==
  {<<t, origin>> : t \in {payload.access_token, payload.refresh_token} \ {Null}}

\* A stored session was issued by the stored vault origin.
IssuerOf(s) ==
  IF s.vaultUrl = Null THEN {}
  ELSE {<<t, StripSlash(s.vaultUrl)>> :
          t \in {s.accessToken, s.refreshToken} \ {Null}}

\* Mutant of HasAccessToken: the payload is not checked.
HasAccessTokenAlways(tokens) == TRUE

\* storeTokens: if (!access_token) throw (line 309) does not apply
HasAccessToken(tokens) == tokens.access_token # Null

\* Mutant of RefreshPrecondition: nothing is required.
RefreshPreconditionNone(vaultUrl, refreshToken) == "none"

\* refreshToken: the error its two checks throw (lines 385-386)
RefreshPrecondition(vaultUrl, refreshToken) ==
  IF vaultUrl = Null THEN "no_vault_url"
  ELSE IF refreshToken = Null THEN "no_refresh_token"
  ELSE "none"

\* storeTokens(tokens): the writes it issues (access_token is present)
storeTokens(s, tokens, t) ==
  [s EXCEPT !.accessToken = tokens.access_token,
            !.refreshToken = IF tokens.refresh_token # Null
                             THEN tokens.refresh_token ELSE @,
            !.expiry = IF tokens.expires_in # 0
                       THEN t + tokens.expires_in * 1000 ELSE @]

\* Mutant of logout: the device identifier is deleted as well.
logoutEverything(s) == [s EXCEPT !.vaultUrl = Null, !.codeVerifier = Null,
                                 !.state = Null, !.accessToken = Null,
                                 !.refreshToken = Null, !.expiry = Null,
                                 !.deviceId = Null]

\* logout(): deletes every key but DEVICE_ID
logout(s) ==
  [s EXCEPT !.vaultUrl = Null, !.codeVerifier = Null, !.state = Null,
            !.accessToken = Null, !.refreshToken = Null, !.expiry = Null]

\* clearStoredAuthData(): deletes every key of SECURE_STORE_KEYS
clearStoredAuthData(s) == EmptyStore

\* Mutant of isAuthenticated: a token without a stored expiry does not count.
isAuthenticatedWithExpiry(s) == s.accessToken # Null /\ s.expiry # Null

\* isAuthenticated(): token !== null
isAuthenticated(s) == s.accessToken # Null

\* Mutant of isExpiringSoon: > instead of >=.
isExpiringSoonStrict(expiresAt, t) ==
  expiresAt # Null /\ t > expiresAt - EXPIRY_BUFFER_MS

\* getAccessToken(): expiresAt && Date.now() >= Number(expiresAt) - EXPIRY_BUFFER_MS
isExpiringSoon(expiresAt, t) ==
  expiresAt # Null /\ t >= expiresAt - EXPIRY_BUFFER_MS

\* Crypto.randomUUID(): the k-th value drawn (every draw is a new value)
randomUUID(k) == 10 + k

\* getDeviceId() falls back to Crypto.randomUUID() (lines 446-455)
DrawsUuid(s, native) == s.deviceId = Null /\ native = Null

\* getDeviceId(): the stored identifier, or else the platform's native id,
\* or else a random UUID; a generated identifier is stored.  k counts the
\* UUIDs drawn before.
getDeviceId(s, native, k) ==
  IF s.deviceId # Null THEN s
  ELSE [s EXCEPT !.deviceId = IF native # Null THEN native
                               ELSE randomUUID(k + 1)]

\* ------------------------------------------------- ApiClient: one API call

IdleReq ==
  [pc |-> "idle",          \* position of the call
   phase |-> "prep",       \* who awaits getAccessToken(): request interceptor
                           \*   ("prep") or the 401 recovery ("recover")
   rtCaller |-> "none",    \* who awaits refreshToken(): "gat" or "recover"
   retried |-> FALSE,      \* originalRequest._retried
   auth |-> NoAuth,        \* config.headers['Authorization'] (Bearer <auth>)
   baseURL |-> Null,       \* config.baseURL
   vaultUrl |-> Null,      \* request interceptor: const vaultUrl
   accessToken |-> Null,   \* getAccessToken: const accessToken / its result
   expiresAt |-> Null,     \* getAccessToken: const expiresAt
   rtVaultUrl |-> Null,    \* refreshToken: const vaultUrl
   rtRefreshToken |-> Null,\* refreshToken: const refreshToken
   err |-> NoErr,          \* the error the call was rejected with
   sends |-> 0,            \* history: how often the call was sent
   resp |-> "none",        \* history: the last answer the call received
   result |-> "pending",   \* history: "ok" or "rejected" once settled
   herd |-> FALSE,         \* history: see Respond
   resumed |-> NoAuth]     \* history: newToken the queued continuation got

InQueue(x) == \E i \in 1..Len(refreshQueue) : refreshQueue[i] = x

\* Request interceptor, up to the await: getStoredVaultUrl() and the two
\* reads of getAccessToken() are issued.
RequestInterceptorStart(q, s) ==
  [q EXCEPT !.pc = "gat_check", !.phase = "prep", !.rtCaller = "none",
            !.vaultUrl = s.vaultUrl,
            !.accessToken = s.accessToken, !.expiresAt = s.expiry]

\* Mutant of ConfigAndSend: the trailing slash is kept.
ConfigAndSendKeepSlash(q, token) ==
  [q EXCEPT !.baseURL = IF q.vaultUrl # Null THEN q.vaultUrl ELSE @,
            !.auth = IF token # Null THEN token ELSE @,
            !.pc = "sent", !.sends = @ + 1,
            !.vaultUrl = Null, !.accessToken = Null, !.expiresAt = Null]

\* Request interceptor, after the await: baseURL and Authorization are set
\* and axios sends the request.
ConfigAndSend(q, token) ==
  [q EXCEPT !.baseURL = IF q.vaultUrl # Null THEN StripSlash(q.vaultUrl) ELSE @,
            !.auth = IF token # Null THEN token ELSE @,
            !.pc = "sent", !.sends = @ + 1,
            !.vaultUrl = Null, !.accessToken = Null, !.expiresAt = Null]

\* The call's promise settles.
Finish(q, result, e) ==
  [q EXCEPT !.pc = "done", !.result = result, !.err = e,
            !.phase = "prep", !.rtCaller = "none",
            !.vaultUrl = Null, !.accessToken = Null, !.expiresAt = Null,
            !.rtVaultUrl = Null, !.rtRefreshToken = Null]

\* Mutant of ShouldRecover: the _retried guard is dropped.
ShouldRecoverAgain(kind, retried) == kind = "expired401"

\* Response interceptor: is401 && isTokenExpiredError && !originalRequest._retried
ShouldRecover(kind, retried) == kind = "expired401" /\ ~retried

\* Mutant of MustQueue: the flag is not consulted.
MustQueueNever(flag) == FALSE

\* Response interceptor: if (isRefreshing) queue, else own the refresh
MustQueue(flag) == flag

\* Mutant of ResumeQueued: the continuation leaves the header alone.
ResumeQueuedStaleHeader(q, newToken, s) ==
  RequestInterceptorStart([q EXCEPT !.resumed = newToken], s)

\* Queued continuation: .then(newToken => { headers.Authorization = ...;
\* return apiClient(originalRequest) })
ResumeQueued(q, newToken, s) ==
  RequestInterceptorStart([q EXCEPT !.auth = newToken, !.resumed = newToken], s)

\* Mutant of drainRefreshQueue: the waiting calls are resolved even on error.
drainRefreshQueueResolves(rq, newToken, error, s) ==
  [x \in Req |-> IF InQueue(x) THEN ResumeQueued(rq[x], newToken, s) ELSE rq[x]]

\* drainRefreshQueue(newToken, error) and the continuations it releases
drainRefreshQueue(rq, newToken, error, s) ==
  [x \in Req |->
     IF InQueue(x)
     THEN IF error # NoErr THEN Finish(rq[x], "rejected", error)
          ELSE ResumeQueued(rq[x], newToken, s)
     ELSE rq[x]]

\* refreshToken(), up to the await: its two reads are issued.
RefreshTokenStart(q, caller, s) ==
  [q EXCEPT !.pc = "rt_check", !.rtCaller = caller, !.accessToken = Null,
            !.rtVaultUrl = s.vaultUrl, !.rtRefreshToken = s.refreshToken]

\* ---------------------------------------------------------- the vault's answers

\* API responses: 2xx, 401 with error code token_expired, 401 with another
\* error code.
ResponseKinds == {"ok", "expired401", "other401"}

\* expires_in of a token response, in seconds (0: the field is absent)
ExpiresInChoices == {0, 30, 120}

\* The token payloads the refresh endpoint can answer with: a fresh access
\* token (or a payload without one), with or without a rotated refresh token
\* and an expires_in.
RefreshPayloads ==
  {[access_token |-> issued + 1, refresh_token |-> rt, expires_in |-> ei] :
      rt \in {Null, issued + 1}, ei \in ExpiresInChoices}
  \cup {[access_token |-> Null, refresh_token |-> Null, expires_in |-> 0]}

\* A direct call of an AuthService method by application code.
IdleCall ==
  [pc |-> "idle",
   method |-> "none",       \* storeTokens, refreshToken, isAuthenticated, logout
   tokens |-> [access_token |-> Null, refresh_token |-> Null, expires_in |-> 0],
                            \* storeTokens: tokens
   rtVaultUrl |-> Null,     \* refreshToken: const vaultUrl
   rtRefreshToken |-> Null, \* refreshToken: const refreshToken
   result |-> "none",       \* what the call resolved to
   err |-> "none",          \* the error the call was rejected with
   sent |-> 0]              \* history: refresh requests the call sent

\* A token response without any field.
NoPayload == [access_token |-> Null, refresh_token |-> Null, expires_in |-> 0]

\* ------------------------------------------------------------------ actions

\* getAccessToken() returns v to the code that awaits it.
\*  - request interceptor: configures the request; axios sends it;
\*  - 401 recovery (lines 101-107, 112-114): sets the header, drains the
\*    queue, re-issues the request with apiClient(originalRequest), and the
\*    finally block clears the flag.  The released continuations and the
\*    re-issued request run their request interceptors up to the await before
\*    any I/O completes.
GetAccessTokenReturns(r, v) ==
  IF req[r].phase = "prep"
  THEN /\ req' = [req EXCEPT ![r] = ConfigAndSend(req[r], v)]
       /\ UNCHANGED <<isRefreshing, refreshQueue>>
  ELSE /\ req' = [drainRefreshQueue(req, v, NoErr, store) EXCEPT
                    ![r] = RequestInterceptorStart([req[r] EXCEPT !.auth = v], store)]
       /\ refreshQueue' = <<>>
       /\ isRefreshing' = FALSE

\* refreshToken() throws e in call r.
\*  - awaited by getAccessToken (catch, lines 365-368): logout() is issued,
\*    then null is returned;
\*  - awaited by the 401 recovery (catch, lines 108-111): the queue is
\*    drained with the error and logout() is issued.
RefreshTokenThrows(r, e) ==
  IF req[r].rtCaller = "gat"
  THEN /\ store' = logout(store)
       /\ req' = [req EXCEPT ![r].pc = "gat_logout", ![r].accessToken = Null,
                             ![r].expiresAt = Null,
                             ![r].rtCaller = "none",
                             ![r].rtVaultUrl = Null, ![r].rtRefreshToken = Null]
       /\ UNCHANGED <<isRefreshing, refreshQueue, recoverySettled>>
  ELSE /\ store' = logout(store)
       /\ req' = [drainRefreshQueue(req, Null, e, store) EXCEPT
                    ![r] = [req[r] EXCEPT !.pc = "rec_logout", !.err = e,
                                          !.expiresAt = Null,
                                          !.rtCaller = "none",
                                          !.rtVaultUrl = Null,
                                          !.rtRefreshToken = Null]]
       /\ refreshQueue' = <<>>
       /\ recoverySettled' = recoverySettled + 1
       /\ UNCHANGED isRefreshing

\* ApiClient.get/post/put/delete: the request interceptor starts.
ApiCall(r) ==
  /\ UNCHANGED <<loginVars, destVars, call, pkce, nativeId, lastStored, issuer, uuidCount>>
  /\ req[r].pc = "idle"
  /\ req' = [req EXCEPT ![r] = RequestInterceptorStart(req[r], store)]
  /\ UNCHANGED <<store, now, isRefreshing, refreshQueue, issued,
                 refreshSent, recoveryCalls, recoverySettled>>

\* getAccessToken() after its reads (lines 353-363).
GetAccessTokenCheck(r) ==
  /\ UNCHANGED <<loginVars, destVars, call, pkce, nativeId, lastStored, issuer, uuidCount>>
  /\ req[r].pc = "gat_check"
  /\ IF req[r].accessToken = Null
     THEN GetAccessTokenReturns(r, Null)
     ELSE IF ~isExpiringSoon(req[r].expiresAt, now)
     THEN GetAccessTokenReturns(r, req[r].accessToken)
     ELSE /\ req' = [req EXCEPT ![r] = RefreshTokenStart(req[r], "gat", store)]
          /\ UNCHANGED <<isRefreshing, refreshQueue>>
  /\ UNCHANGED <<store, now, issued, refreshSent, recoveryCalls, recoverySettled>>

\* refreshToken() after its reads (lines 385-400): the two checks,
\* getDeviceId(), and the POST to {origin}/oauth/token/refresh.
RefreshTokenCheck(r) ==
  /\ UNCHANGED <<loginVars, destVars, call, pkce, nativeId, lastStored, issuer>>
  /\ req[r].pc = "rt_check"
  /\ IF RefreshPrecondition(req[r].rtVaultUrl, req[r].rtRefreshToken) # "none"
     THEN /\ RefreshTokenThrows(r,
               RefreshError(RefreshPrecondition(req[r].rtVaultUrl,
                                                req[r].rtRefreshToken), r))
          /\ UNCHANGED <<refreshSent, uuidCount>>
     ELSE /\ store' = getDeviceId(store, nativeId, uuidCount)
          /\ uuidCount' = IF DrawsUuid(store, nativeId)
                          THEN uuidCount + 1 ELSE uuidCount
          /\ req' = [req EXCEPT ![r].pc = "rt_post", ![r].expiresAt = Null]
          /\ refreshSent' = [refreshSent EXCEPT ![req[r].rtCaller] = @ + 1]
          /\ UNCHANGED <<isRefreshing, refreshQueue, recoverySettled>>
  /\ UNCHANGED <<now, issued, recoveryCalls>>

\* The refresh request fails (transport error or non-2xx).
RefreshFails(r) ==
  /\ UNCHANGED <<loginVars, destVars, call, pkce, nativeId, lastStored, issuer, uuidCount>>
  /\ req[r].pc = "rt_post"
  /\ RefreshTokenThrows(r, RefreshError("refresh_failed", r))
  /\ UNCHANGED <<now, issued, refreshSent, recoveryCalls>>

\* The refresh request is answered with a token payload: storeTokens(data)
\* (lines 402, 306-332).
RefreshSucceeds(r, data) ==
  /\ UNCHANGED <<loginVars, destVars, call, pkce, nativeId, uuidCount>>
  /\ req[r].pc = "rt_post"
  /\ issued < 1 + MaxIssued
  /\ IF ~HasAccessToken(data)
     THEN /\ RefreshTokenThrows(r, RefreshError("no_access_token", r))
          /\ UNCHANGED <<issued, lastStored, issuer>>
     ELSE /\ store' = storeTokens(store, data, now)
          /\ lastStored' = data
          /\ issuer' = issuer \cup Issues(data, StripSlash(req[r].rtVaultUrl))
          /\ req' = [req EXCEPT ![r].pc = "rt_stored",
                                ![r].rtVaultUrl = Null, ![r].rtRefreshToken = Null]
          /\ issued' = issued + 1
          /\ UNCHANGED <<isRefreshing, refreshQueue, recoverySettled>>
  /\ UNCHANGED <<now, refreshSent, recoveryCalls>>

\* refreshToken() returns.
\*  - to getAccessToken (line 364): the access token is read again;
\*  - to the 401 recovery (line 101): getAccessToken() is called.
RefreshTokenReturns(r) ==
  /\ UNCHANGED <<loginVars, destVars, call, pkce, nativeId, lastStored, issuer, uuidCount>>
  /\ req[r].pc = "rt_stored"
  /\ IF req[r].rtCaller = "gat"
     THEN /\ req' = [req EXCEPT ![r].pc = "gat_ret", ![r].rtCaller = "none",
                                ![r].accessToken = store.accessToken,
                                ![r].expiresAt = Null]
          /\ UNCHANGED recoverySettled
     ELSE /\ req' = [req EXCEPT ![r].pc = "gat_check", ![r].rtCaller = "none",
                                ![r].accessToken = store.accessToken,
                                ![r].expiresAt = store.expiry]
          /\ recoverySettled' = recoverySettled + 1
  /\ UNCHANGED <<store, now, isRefreshing, refreshQueue, issued,
                 refreshSent, recoveryCalls>>

\* getAccessToken() returns what it read at line 364.
GetAccessTokenRefreshed(r) ==
  /\ UNCHANGED <<loginVars, destVars, call, pkce, nativeId, lastStored, issuer, uuidCount>>
  /\ req[r].pc = "gat_ret"
  /\ GetAccessTokenReturns(r, req[r].accessToken)
  /\ UNCHANGED <<store, now, issued, refreshSent, recoveryCalls, recoverySettled>>

\* getAccessToken() after `await this.logout()` (line 368): returns null.
GetAccessTokenLoggedOut(r) ==
  /\ UNCHANGED <<loginVars, destVars, call, pkce, nativeId, lastStored, issuer, uuidCount>>
  /\ req[r].pc = "gat_logout"
  /\ GetAccessTokenReturns(r, Null)
  /\ UNCHANGED <<store, now, issued, refreshSent, recoveryCalls, recoverySettled>>

\* Response interceptor (lines 69-119) on the vault's answer to call r.
\* herd records, for the call's first 401/token_expired, that no recovery
\* refresh had completed yet and that every other call was in flight for the
\* first time or had itself received such a 401.
Respond(r, kind) ==
  /\ UNCHANGED <<loginVars, destVars, call, pkce, nativeId, lastStored, issuer, uuidCount>>
  /\ req[r].pc = "sent"
  /\ IF kind = "ok"
     THEN /\ req' = [req EXCEPT ![r] = Finish([req[r] EXCEPT !.resp = kind],
                                              "ok", NoErr)]
          /\ UNCHANGED <<isRefreshing, refreshQueue, recoveryCalls>>
     ELSE IF ShouldRecover(kind, req[r].retried)
     THEN LET q == [req[r] EXCEPT
                      !.retried = TRUE, !.resp = kind,
                      !.herd = /\ recoverySettled = 0
                               /\ \A x \in Req \ {r} :
                                    \/ req[x].pc = "sent" /\ ~req[x].retried
                                    \/ req[x].herd]
          IN IF MustQueue(isRefreshing)
             THEN /\ req' = [req EXCEPT ![r] = [q EXCEPT !.pc = "queued"]]
                  /\ refreshQueue' = Append(refreshQueue, r)
                  /\ UNCHANGED <<isRefreshing, recoveryCalls>>
             ELSE /\ req' = [req EXCEPT ![r] =
                               RefreshTokenStart([q EXCEPT !.phase = "recover"],
                                                 "recover", store)]
                  /\ isRefreshing' = TRUE
                  /\ recoveryCalls' = recoveryCalls + 1
                  /\ UNCHANGED refreshQueue
     ELSE /\ req' = [req EXCEPT ![r] =
                       Finish([req[r] EXCEPT !.resp = kind],
                              "rejected", ResponseError(kind, r))]
          /\ UNCHANGED <<isRefreshing, refreshQueue, recoveryCalls>>
  /\ UNCHANGED <<store, now, issued, refreshSent, recoverySettled>>

\* 401 recovery after `await AuthService.logout()` (lines 111-114).
RecoveryRejects(r) ==
  /\ UNCHANGED <<loginVars, destVars, call, pkce, nativeId, lastStored, issuer, uuidCount>>
  /\ req[r].pc = "rec_logout"
  /\ req' = [req EXCEPT ![r] = Finish(req[r], "rejected", req[r].err)]
  /\ isRefreshing' = FALSE
  /\ UNCHANGED <<store, now, refreshQueue, issued,
                 refreshSent, recoveryCalls, recoverySettled>>

\* The clock advances.
Tick ==
  /\ UNCHANGED <<loginVars, destVars, call, pkce, nativeId, lastStored, issuer, uuidCount>>
  /\ now < MaxTicks * TickMs
  /\ now' = now + TickMs
  /\ UNCHANGED <<store, req, isRefreshing, refreshQueue, issued,
                 refreshSent, recoveryCalls, recoverySettled>>

\* ------------------------------------------------------------ PKCE helpers

\* Characters are numbered: 0..61 stand for A-Z a-z 0-9 in the order of the
\* Base64 alphabet, then '+', '/', '=', '-' and '_'.
Plus == 62
Slash == 63
Pad == 64
Dash == 65
Underscore == 66

\* crypto: the lengths startLogin asks of getRandomBytesAsync
VerifierBytes == 32
StateBytes == 16

\* The byte values the random source is observed with: 0x00, 0xBE, 0xEF,
\* 0xFB (0xFB 0xEF 0xBE encodes as "++++") and 0xFF (0xFF 0xFF 0xFF as "////").
ByteInputs == {0, 190, 239, 251, 255}

\* The period of the byte sequences drawn.
PatternLen == 3

BytePatterns == [1..PatternLen -> ByteInputs]

\* Crypto.getRandomBytesAsync(n): n bytes repeating pattern p
RandomBytes(n, p) == [i \in 1..n |-> p[((i - 1) % PatternLen) + 1]]

\* btoa on three bytes: four characters
Base64Group(a, b, c) ==
  <<a \div 4, (a % 4) * 16 + b \div 16, (b % 16) * 4 + c \div 64, c % 64>>

\* btoa(binary): standard Base64 with '=' padding
RECURSIVE btoa(_)
btoa(bytes) ==
  IF Len(bytes) = 0 THEN <<>>
  ELSE IF Len(bytes) = 1
  THEN <<bytes[1] \div 4, (bytes[1] % 4) * 16, Pad, Pad>>
  ELSE IF Len(bytes) = 2
  THEN <<bytes[1] \div 4, (bytes[1] % 4) * 16 + bytes[2] \div 16,
         (bytes[2] % 16) * 4, Pad>>
  ELSE Base64Group(bytes[1], bytes[2], bytes[3])
         \o btoa(SubSeq(bytes, 4, Len(bytes)))

\* str.replace(/from/g, to) for a single character
ReplaceAll(str, from, to) ==
  [i \in 1..Len(str) |-> IF str[i] = from THEN to ELSE str[i]]

\* str.replace(/=+$/, '')
RECURSIVE StripPadding(_)
StripPadding(str) ==
  IF Len(str) > 0 /\ str[Len(str)] = Pad
  THEN StripPadding(SubSeq(str, 1, Len(str) - 1))
  ELSE str

\* The three replaces of base64URLEncode and generateCodeChallenge.
ToBase64Url(str) ==
  StripPadding(ReplaceAll(ReplaceAll(str, Plus, Dash), Slash, Underscore))

\* Mutant of base64URLEncode: the padding is kept.
base64URLEncodePadded(bytes) ==
  ReplaceAll(ReplaceAll(btoa(bytes), Plus, Dash), Slash, Underscore)

\* base64URLEncode(bytes) (lines 38-49)
base64URLEncode(bytes) == ToBase64Url(btoa(bytes))

\* The ASCII code of a character, which is also its UTF-8 encoding.
AsciiOf(c) ==
  IF c < 26 THEN 65 + c
  ELSE IF c < 52 THEN 97 + (c - 26)
  ELSE IF c < 62 THEN 48 + (c - 52)
  ELSE IF c = Plus THEN 43
  ELSE IF c = Slash THEN 47
  ELSE IF c = Pad THEN 61
  ELSE IF c = Dash THEN 45
  ELSE 95

\* A stand-in for SHA-256: a fixed function from byte sequences to 32 bytes.
RECURSIVE HashFold(_, _)
HashFold(bytes, h) ==
  IF Len(bytes) = 0 THEN h
  ELSE HashFold(SubSeq(bytes, 2, Len(bytes)), (h * 31 + bytes[1]) % 65521)

Sha256(bytes) ==
  LET h == HashFold(bytes, 7)
  IN [i \in 1..32 |-> (h * i + 97 * i * i + Len(bytes)) % 256]

\* Crypto.digestStringAsync(SHA256, str, {encoding: BASE64}): the digest of
\* the string's UTF-8 bytes in standard Base64
digestStringAsync(str) == btoa(Sha256([i \in 1..Len(str) |-> AsciiOf(str[i])]))

\* Mutant of generateCodeChallenge: the digest is returned as Base64.
generateCodeChallengeBase64(codeVerifier) == digestStringAsync(codeVerifier)

\* generateCodeChallenge(codeVerifier) (lines 78-92)
generateCodeChallenge(codeVerifier) == ToBase64Url(digestStringAsync(codeVerifier))

\* startLogin's PKCE values.
IdlePkce ==
  [pc |-> "idle",
   randomBytes |-> <<>>,     \* generateCodeVerifier: const randomBytes
   codeVerifier |-> <<>>,    \* startLogin: const codeVerifier
   codeChallenge |-> <<>>,   \* startLogin: const codeChallenge
   state |-> <<>>,           \* startLogin: const state
   stored |-> <<>>,          \* SECURE_STORE_KEYS.CODE_VERIFIER as written
   urlChallenge |-> <<>>]    \* the code_challenge parameter of authUrl

PkceFrame ==
  /\ UNCHANGED <<apiVars, loginVars, destVars, call, nativeId, lastStored, issuer,
                 uuidCount, store, now, issued>>

\* generateCodeVerifier: getRandomBytesAsync(32) resolves (line 67).
GenerateCodeVerifier(p) ==
  /\ pkce.pc = "idle"
  /\ pkce' = [IdlePkce EXCEPT !.pc = "bytes",
                              !.randomBytes = RandomBytes(VerifierBytes, p)]
  /\ PkceFrame

\* generateCodeVerifier returns base64URLEncode(randomBytes) (line 68).
GenerateCodeVerifierReturns ==
  /\ pkce.pc = "bytes"
  /\ pkce' = [pkce EXCEPT !.pc = "verifier",
                          !.codeVerifier = base64URLEncode(pkce.randomBytes)]
  /\ PkceFrame

\* generatePKCEPair: generateCodeChallenge(codeVerifier) resolves (line 102).
GenerateCodeChallengeReturns ==
  /\ pkce.pc = "verifier"
  /\ pkce' = [pkce EXCEPT !.pc = "pair",
                          !.codeChallenge = generateCodeChallenge(pkce.codeVerifier)]
  /\ PkceFrame

\* generateState: getRandomBytesAsync(16), base64URLEncode (lines 116-119).
GenerateState(p) ==
  /\ pkce.pc = "pair"
  /\ pkce' = [pkce EXCEPT !.pc = "state", !.randomBytes = <<>>,
                          !.state = base64URLEncode(RandomBytes(StateBytes, p))]
  /\ PkceFrame

\* startLogin: the verifier is written and the authorization URL is built
\* (lines 149-163).
StartLoginBuildsUrl ==
  /\ pkce.pc = "state"
  /\ pkce' = [pkce EXCEPT !.pc = "url", !.stored = pkce.codeVerifier,
                          !.urlChallenge = pkce.codeChallenge]
  /\ PkceFrame

\* The login attempt is over; the next startLogin can begin.
StartLoginEnds ==
  /\ pkce.pc = "url"
  /\ pkce' = IdlePkce
  /\ PkceFrame

\* ------------------------------------------------ upload destination store

DestCallers == 1..NumCallers

\* A server string: whether new URL(server) parses it, its host (compared
\* ignoring case), whether the host is written with capitals, whether a path
\* or query follows the host, and the number of trailing slashes.
NoServer == [url |-> FALSE, host |-> 0, upper |-> FALSE, path |-> FALSE, slashes |-> 0]

\* The servers a caller may pass:
\*   "https://vault.example.com", "https://Vault.Example.com/foo/bar",
\*   "https://other.example.com/", and "vault.local//", which is not a URL.
ServerInputs ==
  {[url |-> TRUE, host |-> 1, upper |-> FALSE, path |-> FALSE, slashes |-> 0],
   [url |-> TRUE, host |-> 1, upper |-> TRUE, path |-> TRUE, slashes |-> 0],
   [url |-> TRUE, host |-> 2, upper |-> FALSE, path |-> FALSE, slashes |-> 1],
   [url |-> FALSE, host |-> 3, upper |-> FALSE, path |-> FALSE, slashes |-> 2]}

\* The tokens and names a caller may pass: token 1, which decodes to a
\* payload with a numeric expiresAt claim, without a name (absent or blank),
\* and token 2, which does not decode, with a name.
DestArgs == {[token |-> 1, name |-> Null], [token |-> 2, name |-> 1]}

\* Mutant of normalizeServerUrl: the host keeps its capitals.
normalizeServerUrlKeepCase(server) ==
  IF server.url
  THEN [server EXCEPT !.path = FALSE, !.slashes = 0]
  ELSE [server EXCEPT !.slashes = IF @ > 0 THEN @ - 1 ELSE 0]

\* normalizeServerUrl(server): `${url.protocol}//${url.host}` of the parsed
\* URL (the parser lower-cases the host), or, when the string does not
\* parse, the string without one trailing slash.
normalizeServerUrl(server) ==
  IF server.url
  THEN [server EXCEPT !.upper = FALSE, !.path = FALSE, !.slashes = 0]
  ELSE [server EXCEPT !.slashes = IF @ > 0 THEN @ - 1 ELSE 0]

\* A point in time: days after ms milliseconds since the epoch.
Timestamp(days, ms) == [days |-> days, ms |-> ms]

\* null, where a timestamp is expected
NoTimestamp == [days |-> -1, ms |-> 0]

\* The largest time value of a Date, in days after the epoch; toISOString()
\* throws a RangeError beyond it.
MaxDateDays == 100000000

\* A number of unix seconds: secs seconds after days whole days.
Seconds(days, secs) == [days |-> days, secs |-> secs]

\* The tokens a caller may pass.
TokenInputs == 1..5

\* JSON.parse(atob(token)) and decoded.expiresAt (lines 64-67): whether the
\* token decodes, whether the claim is a number, and the number.
\*   1: {"expiresAt": 5}             2: not base64 of JSON
\*   3: {"expiresAt": "1893456000"}  4: {"expiresAt": 10000000000000}
\*   5: {"expiresAt": 1893456000}
DecodeToken(token) ==
  CASE token = 1 -> [ok |-> TRUE, numeric |-> TRUE, exp |-> Seconds(0, 5)]
    [] token = 2 -> [ok |-> FALSE, numeric |-> FALSE, exp |-> Seconds(0, 0)]
    [] token = 3 -> [ok |-> TRUE, numeric |-> FALSE, exp |-> Seconds(0, 0)]
    [] token = 4 -> [ok |-> TRUE, numeric |-> TRUE,
                     exp |-> Seconds(115740740, 64000)]
    [] token = 5 -> [ok |-> TRUE, numeric |-> TRUE, exp |-> Seconds(21915, 0)]

\* new Date(ms) is a valid date: toISOString() does not throw
ValidDate(t) ==
  /\ t.days >= 0 /\ t.ms >= 0
  /\ t.days < MaxDateDays \/ (t.days = MaxDateDays /\ t.ms = 0)

\* Mutant of parseExpiresAtFromToken: the claim is taken as milliseconds.
parseExpiresAtAsMillis(token) ==
  LET decoded == DecodeToken(token)
      t == Timestamp(decoded.exp.days, decoded.exp.secs)
  IN IF decoded.ok /\ decoded.numeric /\ ValidDate(t) THEN t ELSE NoTimestamp

\* parseExpiresAtFromToken(token): new Date(exp * 1000).toISOString() for a
\* numeric expiresAt claim, or null; whatever throws inside the try block,
\* the RangeError of toISOString() included, yields null.
parseExpiresAtFromToken(token) ==
  LET decoded == DecodeToken(token)
      t == Timestamp(decoded.exp.days, decoded.exp.secs * 1000)
  IN IF decoded.ok /\ decoded.numeric /\ ValidDate(t) THEN t ELSE NoTimestamp

\* Mutant of DefaultExpiry: the fallback is the current time.
DefaultExpiryNow(t) == Timestamp(0, t)

\* new Date(Date.now() + 30 * 24 * 60 * 60 * 1000).toISOString()
DefaultExpiry(t) == Timestamp(30, t)

\* name?.trim() || normalized
DestName(name, normalized) ==
  IF name # Null THEN [label |-> name, server |-> NoServer]
  ELSE [label |-> Null, server |-> normalized]

\* null, where a destination is expected
NoDest ==
  [id |-> Null, name |-> [label |-> Null, server |-> NoServer],
   server |-> NoServer, token |-> Null, expiresAt |-> NoTimestamp]

IdleOp ==
  [pc |-> "idle",
   server |-> NoServer,     \* addDestination: server
   normalized |-> NoServer, \* addDestination: const normalized
   token |-> Null,          \* addDestination: token
   name |-> Null,           \* addDestination: name
   id |-> Null,             \* removeDestination, getDestination: id
   list |-> <<>>,           \* const list = await getAllDestinations()
   result |-> NoDest]       \* getDestination: what it returned

\* list.find(d => normalizeServerUrl(d.server) === normalized): its index, or 0
FindIndex(list, normalized) ==
  LET hits == {i \in 1..Len(list) : normalizeServerUrl(list[i].server) = normalized}
  IN IF hits = {} THEN 0 ELSE CHOOSE i \in hits : \A j \in hits : i <= j

\* list.filter(d => normalizeServerUrl(d.server) !== normalized)
RestOf(list, normalized) ==
  LET Keep(d) == normalizeServerUrl(d.server) # normalized
  IN SelectSeq(list, Keep)

\* list.filter(d => d.id !== id)
WithoutId(list, id) ==
  LET Keep(d) == d.id # id
  IN SelectSeq(list, Keep)

\* An id that Crypto.randomUUID() never returns to addDestination.
UnknownId == MaxIds + 1

\* The ids a caller can pass: those of entries it has seen listed, which
\* addDestination drew earlier, and ids that were never stored.
KnownIds == (1..nextId) \cup {UnknownId}

\* list.find(d => d.id === id) ?? null
FindById(list, id) ==
  LET hits == {i \in 1..Len(list) : list[i].id = id}
  IN IF hits = {} THEN NoDest
     ELSE list[CHOOSE i \in hits : \A j \in hits : i <= j]

\* addDestination(server, token, name) up to its await (lines 41-42): the
\* server is normalized and getAllDestinations() reads the stored list.
AddDestination(p, server, token, name) ==
  /\ destOp[p].pc = "idle"
  /\ destOp' = [destOp EXCEPT ![p] =
                  [IdleOp EXCEPT !.pc = "add_read", !.server = server,
                                 !.normalized = normalizeServerUrl(server),
                                 !.token = token, !.name = name,
                                 !.list = destinations]]
  /\ UNCHANGED <<destinations, nextId>>
  /\ UNCHANGED authVars

\* addDestination after the read (lines 43-58): the entry for the server is
\* looked up, the new entry is built and the list is written.
AddDestinationWrite(p) ==
  /\ destOp[p].pc = "add_read"
  /\ LET op == destOp[p]
         i == FindIndex(op.list, op.normalized)
         parsed == parseExpiresAtFromToken(op.token)
         newDest == [id |-> IF i # 0 THEN op.list[i].id ELSE nextId + 1,
                     name |-> DestName(op.name, op.normalized),
                     server |-> op.normalized,
                     token |-> op.token,
                     expiresAt |-> IF parsed # NoTimestamp THEN parsed
                                   ELSE DefaultExpiry(now)]
     IN /\ i = 0 => nextId < MaxIds
        /\ nextId' = IF i = 0 THEN nextId + 1 ELSE nextId
        /\ destinations' = Append(RestOf(op.list, op.normalized), newDest)
        /\ destOp' = [destOp EXCEPT ![p] =
                        [IdleOp EXCEPT !.pc = "add_written",
                                       !.server = op.server]]
  /\ UNCHANGED authVars

\* removeDestination(id) up to its await (line 78).
RemoveDestination(p, id) ==
  /\ destOp[p].pc = "idle"
  /\ id \in KnownIds
  /\ destOp' = [destOp EXCEPT ![p] =
                  [IdleOp EXCEPT !.pc = "rm_read", !.id = id,
                                 !.list = destinations]]
  /\ UNCHANGED <<destinations, nextId>>
  /\ UNCHANGED authVars

\* removeDestination after the read (lines 79-80).
RemoveDestinationWrite(p) ==
  /\ destOp[p].pc = "rm_read"
  /\ destinations' = WithoutId(destOp[p].list, destOp[p].id)
  /\ destOp' = [destOp EXCEPT ![p] = [IdleOp EXCEPT !.pc = "rm_written",
                                                    !.id = destOp[p].id]]
  /\ UNCHANGED nextId
  /\ UNCHANGED authVars

\* getDestination(id) up to its await (line 87).
GetDestination(p, id) ==
  /\ destOp[p].pc = "idle"
  /\ id \in KnownIds
  /\ destOp' = [destOp EXCEPT ![p] =
                  [IdleOp EXCEPT !.pc = "get_read", !.id = id,
                                 !.list = destinations]]
  /\ UNCHANGED <<destinations, nextId>>
  /\ UNCHANGED authVars

\* getDestination after the read (line 88).
GetDestinationReturns(p) ==
  /\ destOp[p].pc = "get_read"
  /\ destOp' = [destOp EXCEPT ![p] =
                  [IdleOp EXCEPT !.pc = "got", !.id = destOp[p].id,
                                 !.result = FindById(destOp[p].list,
                                                     destOp[p].id)]]
  /\ UNCHANGED <<destinations, nextId>>
  /\ UNCHANGED authVars

\* The write has completed: the call logs and returns (lines 59, 81); the
\* caller of getDestination has taken its result.
DestinationCallReturns(p) ==
  /\ destOp[p].pc \in {"add_written", "rm_written", "got"}
  /\ destOp' = [destOp EXCEPT ![p] = IdleOp]
  /\ UNCHANGED <<destinations, nextId>>
  /\ UNCHANGED authVars

\* ------------------------------------------------------------- login flows

\* Flow 0 is LoginScreen.handleLogin (one at a time, MaxLogins attempts);
\* flows 1..MaxLinks are deep-link events handled by handleUrl of the layouts.
Flows == 0..MaxLinks

\* A callback URL: its query parameters (Null: the parameter is absent).
NoUrl == [error |-> Null, error_description |-> Null, code |-> Null, state |-> Null]

\* The callback URLs the browser or a deep link may deliver: an error with or
\* without a description (and nothing else, or a code and a state), no
\* parameter at all, a missing code, a missing state, and a code with the
\* state of any login attempt or a state no attempt generated.
ForeignState == MaxLogins + 1
CallbackUrls ==
  {[NoUrl EXCEPT !.error = 1, !.error_description = 2, !.code = 1, !.state = 1],
   [NoUrl EXCEPT !.error = 1],
   NoUrl, [NoUrl EXCEPT !.state = 1], [NoUrl EXCEPT !.code = 1]}
  \cup {[NoUrl EXCEPT !.code = 1, !.state = st] : st \in 1..ForeignState}

\* The vault URLs the user may type: two origins, one written with a
\* trailing slash.
VaultInputs == {VaultUrl(1, 1), VaultUrl(2, 0)}

\* The token payloads the token endpoint can answer with: a full one, one
\* with an access token only, and one without an access token.
TokenPayloads ==
  {[access_token |-> issued + 1, refresh_token |-> issued + 1, expires_in |-> 120],
   [access_token |-> issued + 1, refresh_token |-> Null, expires_in |-> 0],
   [access_token |-> Null, refresh_token |-> Null, expires_in |-> 0]}

IdleFlow ==
  [pc |-> "idle",
   attempt |-> 0,          \* history: which startLogin this is (flow 0)
   vaultUrl |-> Null,      \* handleLogin: const trimmed
   codeVerifier |-> Null,  \* startLogin: const codeVerifier
   state |-> Null,         \* startLogin: const state
   url |-> NoUrl,          \* the callback URL handed to handleCallback
   storedState |-> Null,   \* handleCallback: const storedState
   code |-> Null,          \* handleCallback's result
   exVaultUrl |-> Null,    \* exchangeCodeForToken: const vaultUrl
   exVerifier |-> Null,    \* exchangeCodeForToken: const codeVerifier
   outcome |-> "none",     \* history: how the flow ended
   errKind |-> "none",     \* history: the error it was rejected with
   errDetail |-> Null,
   resultType |-> "none"]  \* handleLogin: result.type

\* The flow ends in its catch block with an error.
FlowFails(fl, kind, detail) ==
  [fl EXCEPT !.pc = "done", !.outcome = "error",
             !.errKind = kind, !.errDetail = detail,
             !.code = Null, !.exVaultUrl = Null, !.exVerifier = Null]

\* The flow ends without an error.
FlowEnds(fl, outcome) ==
  [fl EXCEPT !.pc = "done", !.outcome = outcome,
             !.code = Null, !.exVaultUrl = Null, !.exVerifier = Null]

\* Mutant of handleCallback: the state parameter is checked before the code.
handleCallbackStateFirst(fl, url, s) ==
  IF url.error # Null
  THEN FlowFails([fl EXCEPT !.url = url], "authorization_error",
                 IF url.error_description # Null
                 THEN url.error_description ELSE url.error)
  ELSE IF url.state = Null
  THEN FlowFails([fl EXCEPT !.url = url], "missing_state", Null)
  ELSE IF url.code = Null
  THEN FlowFails([fl EXCEPT !.url = url], "missing_code", Null)
  ELSE [fl EXCEPT !.pc = "hc_state", !.url = url, !.storedState = s.state]

\* handleCallback(url) up to its await (lines 226-243): the error, code and
\* state parameters are checked, then the stored state is read.
handleCallback(fl, url, s) ==
  IF url.error # Null
  THEN FlowFails([fl EXCEPT !.url = url], "authorization_error",
                 IF url.error_description # Null
                 THEN url.error_description ELSE url.error)
  ELSE IF url.code = Null
  THEN FlowFails([fl EXCEPT !.url = url], "missing_code", Null)
  ELSE IF url.state = Null
  THEN FlowFails([fl EXCEPT !.url = url], "missing_state", Null)
  ELSE [fl EXCEPT !.pc = "hc_state", !.url = url, !.storedState = s.state]

\* Mutant of StateMatches: the state is not compared.
StateMatchesAny(returnedState, storedState) == TRUE

\* Mutant of StateMatches: a callback passes when no state is stored.
StateMatchesOrUnset(returnedState, storedState) ==
  storedState = Null \/ returnedState = storedState

\* handleCallback: returnedState !== storedState is false
StateMatches(returnedState, storedState) == returnedState = storedState

\* LoginScreen.handleLogin: validateUrl passes, startLogin(trimmed) writes
\* the vault URL (line 141).
HandleLogin(v) ==
  /\ flow[0].pc \in {"idle", "done"}
  /\ flow[0].attempt < MaxLogins
  /\ store' = [store EXCEPT !.vaultUrl = v]
  /\ flow' = [flow EXCEPT ![0] =
                [IdleFlow EXCEPT !.pc = "sl_vault", !.vaultUrl = v,
                                 !.attempt = flow[0].attempt + 1]]
  /\ UNCHANGED <<now, issued, tokenRequests>>
  /\ UNCHANGED <<apiVars, destVars, call, pkce, nativeId, lastStored, issuer, uuidCount>>

\* startLogin: the PKCE pair and the state are generated (random values:
\* each attempt's are new) and written (lines 144-153).
StartLoginStorePkce ==
  /\ flow[0].pc = "sl_vault"
  /\ LET k == flow[0].attempt
     IN /\ store' = [store EXCEPT !.codeVerifier = k, !.state = k]
        /\ flow' = [flow EXCEPT ![0].pc = "sl_stored",
                                ![0].codeVerifier = k, ![0].state = k]
  /\ UNCHANGED <<now, issued, tokenRequests>>
  /\ UNCHANGED <<apiVars, destVars, call, pkce, nativeId, lastStored, issuer, uuidCount>>

\* startLogin: the authorization URL is opened in the browser (lines 156-168).
StartLoginOpenBrowser ==
  /\ flow[0].pc = "sl_stored"
  /\ flow' = [flow EXCEPT ![0].pc = "browser"]
  /\ UNCHANGED <<store, now, issued, tokenRequests>>
  /\ UNCHANGED <<apiVars, destVars, call, pkce, nativeId, lastStored, issuer, uuidCount>>

\* The browser session ends with a callback URL: handleLogin calls
\* handleCallback(result.url) (lines 67-69).
BrowserSuccess(url) ==
  /\ flow[0].pc = "browser"
  /\ flow' = [flow EXCEPT ![0] =
                handleCallback([flow[0] EXCEPT !.resultType = "success"],
                               url, store)]
  /\ UNCHANGED <<store, now, issued, tokenRequests>>
  /\ UNCHANGED <<apiVars, destVars, call, pkce, nativeId, lastStored, issuer, uuidCount>>

\* Mutant of BrowserOther: every other result raises the alert.
BrowserOtherAlerts(type) ==
  /\ flow[0].pc = "browser"
  /\ flow' = [flow EXCEPT ![0] =
                FlowEnds([flow[0] EXCEPT !.resultType = type], "failed")]
  /\ UNCHANGED <<store, now, issued, tokenRequests>>
  /\ UNCHANGED <<apiVars, destVars, call, pkce, nativeId, lastStored, issuer, uuidCount>>

\* The browser session ends otherwise: cancel and dismiss are silent, any
\* other result raises the "Login Failed" alert (lines 83-90).
BrowserOther(type) ==
  /\ flow[0].pc = "browser"
  /\ flow' = [flow EXCEPT ![0] =
                FlowEnds([flow[0] EXCEPT !.resultType = type],
                         IF type \in {"cancel", "dismiss"}
                         THEN "cancelled" ELSE "failed")]
  /\ UNCHANGED <<store, now, issued, tokenRequests>>
  /\ UNCHANGED <<apiVars, destVars, call, pkce, nativeId, lastStored, issuer, uuidCount>>

\* A deep link that isAuthCallback accepts arrives: handleUrl calls
\* handleCallback(url) (_layout.tsx lines 64-70).
HandleUrl(f, url) ==
  /\ f # 0
  /\ flow[f].pc = "idle"
  /\ flow' = [flow EXCEPT ![f] = handleCallback(flow[f], url, store)]
  /\ UNCHANGED <<store, now, issued, tokenRequests>>
  /\ UNCHANGED <<apiVars, destVars, call, pkce, nativeId, lastStored, issuer, uuidCount>>

\* handleCallback after its read (lines 244-248), then exchangeCodeForToken
\* up to its await (lines 264-267).
HandleCallbackState(f) ==
  /\ flow[f].pc = "hc_state"
  /\ flow' = [flow EXCEPT ![f] =
                IF ~StateMatches(flow[f].url.state, flow[f].storedState)
                THEN FlowFails(flow[f], "state_mismatch", Null)
                ELSE [flow[f] EXCEPT !.pc = "ex_read", !.code = flow[f].url.code,
                                     !.exVaultUrl = store.vaultUrl,
                                     !.exVerifier = store.codeVerifier]]
  /\ UNCHANGED <<store, now, issued, tokenRequests>>
  /\ UNCHANGED <<apiVars, destVars, call, pkce, nativeId, lastStored, issuer, uuidCount>>

\* Mutant of ExchangePrecondition: the verifier is not required.
ExchangePreconditionNoVerifier(vaultUrl, codeVerifier) ==
  IF vaultUrl = Null THEN "no_vault_url" ELSE "none"

\* exchangeCodeForToken: the error its two checks throw (lines 269-270)
ExchangePrecondition(vaultUrl, codeVerifier) ==
  IF vaultUrl = Null THEN "no_vault_url"
  ELSE IF codeVerifier = Null THEN "no_verifier"
  ELSE "none"

\* exchangeCodeForToken after its reads (lines 269-288): the two checks,
\* getDeviceId(), and the POST to {origin}/oauth/token.
ExchangeCheck(f) ==
  /\ flow[f].pc = "ex_read"
  /\ IF ExchangePrecondition(flow[f].exVaultUrl, flow[f].exVerifier) # "none"
     THEN /\ flow' = [flow EXCEPT ![f] =
                        FlowFails(flow[f],
                                  ExchangePrecondition(flow[f].exVaultUrl,
                                                       flow[f].exVerifier), Null)]
          /\ UNCHANGED <<store, tokenRequests, uuidCount>>
     ELSE /\ store' = getDeviceId(store, nativeId, uuidCount)
          /\ uuidCount' = IF DrawsUuid(store, nativeId)
                          THEN uuidCount + 1 ELSE uuidCount
          /\ tokenRequests' =
               Append(tokenRequests,
                      [by |-> f, attempt |-> flow[f].attempt,
                       origin |-> StripSlash(flow[f].exVaultUrl),
                       code |-> flow[f].code,
                       code_verifier |-> flow[f].exVerifier,
                       device_id |-> store'.deviceId])
          /\ flow' = [flow EXCEPT ![f].pc = "ex_post"]
  /\ UNCHANGED <<now, issued>>
  /\ UNCHANGED <<apiVars, destVars, call, pkce, nativeId, lastStored, issuer>>

\* The token request fails (transport error or non-2xx).
ExchangeFails(f) ==
  /\ flow[f].pc = "ex_post"
  /\ flow' = [flow EXCEPT ![f] = FlowFails(flow[f], "exchange_failed", Null)]
  /\ UNCHANGED <<store, now, issued, tokenRequests>>
  /\ UNCHANGED <<apiVars, destVars, call, pkce, nativeId, lastStored, issuer, uuidCount>>

\* The token request is answered with a payload: storeTokens(tokens).
ExchangeSucceeds(f, data) ==
  /\ flow[f].pc = "ex_post"
  /\ IF ~HasAccessToken(data)
     THEN /\ flow' = [flow EXCEPT ![f] = FlowFails(flow[f], "no_access_token", Null)]
          /\ UNCHANGED <<store, issued, lastStored, issuer>>
     ELSE /\ store' = storeTokens(store, data, now)
          /\ lastStored' = data
          /\ issuer' = issuer \cup Issues(data, StripSlash(flow[f].exVaultUrl))
          /\ flow' = [flow EXCEPT ![f].pc = "st_stored"]
          /\ issued' = issued + 1
  /\ UNCHANGED <<now, tokenRequests>>
  /\ UNCHANGED <<apiVars, destVars, call, pkce, nativeId, uuidCount>>

\* storeTokens has returned.  handleUrl navigates to the tabs;
\* handleLogin starts its cleanup with getStoredCodeVerifier() (line 76).
TokensStored(f) ==
  /\ flow[f].pc = "st_stored"
  /\ flow' = [flow EXCEPT ![f] =
                IF f = 0 THEN [flow[f] EXCEPT !.pc = "cl_read"]
                ELSE FlowEnds(flow[f], "success")]
  /\ UNCHANGED <<store, now, issued, tokenRequests>>
  /\ UNCHANGED <<apiVars, destVars, call, pkce, nativeId, lastStored, issuer, uuidCount>>

\* handleLogin's cleanup: .then(() => AuthService.clearStoredAuthData?.())
\* (lines 76-78).
CleanupClear ==
  /\ flow[0].pc = "cl_read"
  /\ store' = clearStoredAuthData(store)
  /\ flow' = [flow EXCEPT ![0].pc = "cl_clear"]
  /\ UNCHANGED <<now, issued, tokenRequests>>
  /\ UNCHANGED <<apiVars, destVars, call, pkce, nativeId, lastStored, issuer, uuidCount>>

\* handleLogin after the cleanup: router.replace('/(tabs)') (line 82).
LoginDone ==
  /\ flow[0].pc = "cl_clear"
  /\ flow' = [flow EXCEPT ![0] = FlowEnds(flow[0], "success")]
  /\ UNCHANGED <<store, now, issued, tokenRequests>>
  /\ UNCHANGED <<apiVars, destVars, call, pkce, nativeId, lastStored, issuer, uuidCount>>

\* A fresh install: nothing is stored.
LoginInit ==
  /\ store = EmptyStore
  /\ now = 0
  /\ req = [r \in Req |-> IdleReq]
  /\ isRefreshing = FALSE
  /\ refreshQueue = <<>>
  /\ issued = 0
  /\ refreshSent = [gat |-> 0, recover |-> 0]
  /\ recoveryCalls = 0
  /\ recoverySettled = 0
  /\ flow = [f \in Flows |-> IdleFlow]
  /\ tokenRequests = <<>>
  /\ lastStored = NoPayload
  /\ issuer = IssuerOf(store)
  /\ nativeId \in {Null, 1}
  /\ uuidCount = 0
  /\ destinations = <<>>
  /\ destOp = [p \in DestCallers |-> IdleOp]
  /\ nextId = 0
  /\ call = IdleCall
  /\ pkce = IdlePkce

LoginNext ==
  \/ \E v \in VaultInputs : HandleLogin(v)
  \/ StartLoginStorePkce
  \/ StartLoginOpenBrowser
  \/ \E url \in CallbackUrls : BrowserSuccess(url)
  \/ \E type \in {"cancel", "dismiss", "locked"} : BrowserOther(type)
  \/ \E f \in Flows : \E url \in CallbackUrls : HandleUrl(f, url)
  \/ \E f \in Flows : HandleCallbackState(f)
  \/ \E f \in Flows : ExchangeCheck(f)
  \/ \E f \in Flows : ExchangeFails(f)
  \/ \E f \in Flows : \E data \in TokenPayloads : ExchangeSucceeds(f, data)
  \/ \E f \in Flows : TokensStored(f)
  \/ CleanupClear
  \/ LoginDone

LoginSpec == LoginInit /\ [][LoginNext]_vars

\* --------------------------------------------- API client specification

\* A session as the deep-link login leaves it (handleUrl stores the tokens
\* and clears nothing): vault URL, verifier, state and device id are stored;
\* the token payload had an access token and, optionally, a refresh token
\* and an expires_in.  Or no session at all.
SessionStores ==
  {[vaultUrl |-> VaultUrl(1, 1), codeVerifier |-> 1, state |-> 1,
    accessToken |-> 1, refreshToken |-> rt, expiry |-> e, deviceId |-> 1] :
      rt \in {Null, 1}, e \in {Null, 30 * 1000, 90 * 1000}}

\* The payload storeTokens stored to leave session s.
PayloadOf(s) ==
  IF s.accessToken = Null THEN NoPayload
  ELSE [access_token |-> s.accessToken, refresh_token |-> s.refreshToken,
        expires_in |-> IF s.expiry = Null THEN 0 ELSE s.expiry \div 1000]

Init ==
  /\ store \in SessionStores \cup {[EmptyStore EXCEPT !.deviceId = 1]}
  /\ lastStored = PayloadOf(store)
  /\ issuer = IssuerOf(store)
  /\ nativeId = 1
  /\ uuidCount = 0
  /\ destinations = <<>>
  /\ destOp = [p \in DestCallers |-> IdleOp]
  /\ nextId = 0
  /\ call = IdleCall
  /\ pkce = IdlePkce
  /\ now = 0
  /\ req = [r \in Req |-> IdleReq]
  /\ isRefreshing = FALSE
  /\ refreshQueue = <<>>
  /\ issued = 1
  /\ refreshSent = [gat |-> 0, recover |-> 0]
  /\ recoveryCalls = 0
  /\ recoverySettled = 0
  /\ flow = [f \in Flows |-> IdleFlow]
  /\ tokenRequests = <<>>

Next ==
  \/ \E r \in Req : ApiCall(r)
  \/ \E r \in Req : GetAccessTokenCheck(r)
  \/ \E r \in Req : RefreshTokenCheck(r)
  \/ \E r \in Req : RefreshFails(r)
  \/ \E r \in Req : \E data \in RefreshPayloads : RefreshSucceeds(r, data)
  \/ \E r \in Req : RefreshTokenReturns(r)
  \/ \E r \in Req : GetAccessTokenRefreshed(r)
  \/ \E r \in Req : GetAccessTokenLoggedOut(r)
  \/ \E r \in Req : \E kind \in ResponseKinds : Respond(r, kind)
  \/ \E r \in Req : RecoveryRejects(r)
  \/ Tick

Spec == Init /\ [][Next]_vars

\* Every I/O operation the client has issued completes: a SecureStore
\* operation resolves, and a network request is answered or fails (the API
\* client sets a 15 s timeout).  New API calls and the clock are not forced.
RequestStep(r) ==
  \/ GetAccessTokenCheck(r)
  \/ RefreshTokenCheck(r)
  \/ RefreshFails(r)
  \/ \E data \in RefreshPayloads : RefreshSucceeds(r, data)
  \/ RefreshTokenReturns(r)
  \/ GetAccessTokenRefreshed(r)
  \/ GetAccessTokenLoggedOut(r)
  \/ \E kind \in ResponseKinds : Respond(r, kind)
  \/ RecoveryRejects(r)

FairSpec == Spec /\ \A r \in Req : WF_vars(RequestStep(r))

\* -------------------------------------------- AuthService called directly

\* Application code calls one AuthService method at a time.
Callable == call.pc \in {"idle", "done"}

ServiceFrame ==
  /\ UNCHANGED <<apiVars, loginVars, destVars, pkce, nativeId, now>>

\* storeTokens(tokens) (lines 306-332): it throws before any write when the
\* payload has no access_token, else it issues its writes.
CallStoreTokens(tokens) ==
  /\ Callable
  /\ issued < 1 + MaxIssued
  /\ IF ~HasAccessToken(tokens)
     THEN /\ call' = [IdleCall EXCEPT !.pc = "done", !.method = "storeTokens",
                                      !.tokens = tokens,
                                      !.err = "no_access_token"]
          /\ UNCHANGED <<store, issued, lastStored, issuer>>
     ELSE /\ store' = storeTokens(store, tokens, now)
          /\ lastStored' = tokens
          /\ UNCHANGED issuer
          /\ issued' = issued + 1
          /\ call' = [IdleCall EXCEPT !.pc = "st_write", !.method = "storeTokens",
                                      !.tokens = tokens]
  /\ UNCHANGED uuidCount
  /\ ServiceFrame

\* refreshToken() up to its await (lines 380-383).
CallRefreshToken ==
  /\ Callable
  /\ call' = [IdleCall EXCEPT !.pc = "rt_check", !.method = "refreshToken",
                              !.rtVaultUrl = store.vaultUrl,
                              !.rtRefreshToken = store.refreshToken]
  /\ UNCHANGED <<store, issued, lastStored, issuer, uuidCount>>
  /\ ServiceFrame

\* refreshToken() after its reads (lines 385-400).
ServiceRefreshCheck ==
  /\ call.pc = "rt_check"
  /\ IF RefreshPrecondition(call.rtVaultUrl, call.rtRefreshToken) # "none"
     THEN /\ call' = [call EXCEPT !.pc = "done",
                                  !.err = RefreshPrecondition(call.rtVaultUrl,
                                                              call.rtRefreshToken)]
          /\ UNCHANGED <<store, uuidCount>>
     ELSE /\ store' = getDeviceId(store, nativeId, uuidCount)
          /\ uuidCount' = IF DrawsUuid(store, nativeId)
                          THEN uuidCount + 1 ELSE uuidCount
          /\ call' = [call EXCEPT !.pc = "rt_post", !.sent = @ + 1]
  /\ UNCHANGED <<issued, lastStored, issuer>>
  /\ ServiceFrame

\* The refresh request fails: refreshToken() rejects with that error.
ServiceRefreshFails ==
  /\ call.pc = "rt_post"
  /\ call' = [call EXCEPT !.pc = "done", !.err = "refresh_failed"]
  /\ UNCHANGED <<store, issued, lastStored, issuer, uuidCount>>
  /\ ServiceFrame

\* The refresh request is answered: storeTokens(data) (line 402).
ServiceRefreshSucceeds(data) ==
  /\ call.pc = "rt_post"
  /\ issued < 1 + MaxIssued
  /\ IF ~HasAccessToken(data)
     THEN /\ call' = [call EXCEPT !.pc = "done", !.err = "no_access_token"]
          /\ UNCHANGED <<store, issued, lastStored, issuer>>
     ELSE /\ store' = storeTokens(store, data, now)
          /\ lastStored' = data
          /\ issuer' = issuer \cup Issues(data, StripSlash(call.rtVaultUrl))
          /\ issued' = issued + 1
          /\ call' = [call EXCEPT !.pc = "st_write"]
  /\ UNCHANGED uuidCount
  /\ ServiceFrame

\* isAuthenticated() (lines 427-430): the access token is read.
CallIsAuthenticated ==
  /\ Callable
  /\ call' = [IdleCall EXCEPT !.pc = "ia_read", !.method = "isAuthenticated",
                              !.result = IF isAuthenticated(store)
                                         THEN "true" ELSE "false"]
  /\ UNCHANGED <<store, issued, lastStored, issuer, uuidCount>>
  /\ ServiceFrame

\* logout() (lines 412-417): the deletes are issued.
CallLogout ==
  /\ Callable
  /\ store' = logout(store)
  /\ call' = [IdleCall EXCEPT !.pc = "lo_write", !.method = "logout"]
  /\ UNCHANGED <<issued, lastStored, issuer, uuidCount>>
  /\ ServiceFrame

\* The awaited reads or writes have completed: the method returns.
ServiceReturns ==
  /\ call.pc \in {"st_write", "ia_read", "lo_write"}
  /\ call' = [call EXCEPT !.pc = "done",
                          !.result = IF call.pc = "ia_read" THEN @ ELSE "ok"]
  /\ UNCHANGED <<store, issued, lastStored, issuer, uuidCount>>
  /\ ServiceFrame

ServiceInit ==
  /\ store \in SessionStores \cup {[EmptyStore EXCEPT !.deviceId = 1]}
  /\ lastStored = PayloadOf(store)
  /\ issuer = IssuerOf(store)
  /\ nativeId = 1
  /\ uuidCount = 0
  /\ destinations = <<>>
  /\ destOp = [p \in DestCallers |-> IdleOp]
  /\ nextId = 0
  /\ call = IdleCall
  /\ pkce = IdlePkce
  /\ now = 0
  /\ req = [r \in Req |-> IdleReq]
  /\ isRefreshing = FALSE
  /\ refreshQueue = <<>>
  /\ issued = 1
  /\ refreshSent = [gat |-> 0, recover |-> 0]
  /\ recoveryCalls = 0
  /\ recoverySettled = 0
  /\ flow = [f \in Flows |-> IdleFlow]
  /\ tokenRequests = <<>>

ServiceNext ==
  \/ \E tokens \in RefreshPayloads : CallStoreTokens(tokens)
  \/ CallRefreshToken
  \/ ServiceRefreshCheck
  \/ ServiceRefreshFails
  \/ \E data \in RefreshPayloads : ServiceRefreshSucceeds(data)
  \/ CallIsAuthenticated
  \/ CallLogout
  \/ ServiceReturns
  \/ Tick

ServiceSpec == ServiceInit /\ [][ServiceNext]_vars

\* ------------------------------------- destination store specification

\* No destination is stored and nobody is logged in.
DestInit ==
  /\ store = EmptyStore
  /\ now = 0
  /\ req = [r \in Req |-> IdleReq]
  /\ isRefreshing = FALSE
  /\ refreshQueue = <<>>
  /\ issued = 0
  /\ refreshSent = [gat |-> 0, recover |-> 0]
  /\ recoveryCalls = 0
  /\ recoverySettled = 0
  /\ flow = [f \in Flows |-> IdleFlow]
  /\ tokenRequests = <<>>
  /\ lastStored = NoPayload
  /\ issuer = IssuerOf(store)
  /\ nativeId = 1
  /\ uuidCount = 0
  /\ destinations = <<>>
  /\ destOp = [p \in DestCallers |-> IdleOp]
  /\ nextId = 0
  /\ call = IdleCall
  /\ pkce = IdlePkce

DestNext ==
  \/ \E p \in DestCallers : \E server \in ServerInputs :
       \E a \in DestArgs : AddDestination(p, server, a.token, a.name)
  \/ \E p \in DestCallers : AddDestinationWrite(p)
  \/ \E p \in DestCallers : \E id \in 1..UnknownId : RemoveDestination(p, id)
  \/ \E p \in DestCallers : RemoveDestinationWrite(p)
  \/ \E p \in DestCallers : \E id \in 1..UnknownId : GetDestination(p, id)
  \/ \E p \in DestCallers : GetDestinationReturns(p)
  \/ \E p \in DestCallers : DestinationCallReturns(p)

DestSpec == DestInit /\ [][DestNext]_vars

\* --------------------------------------------- login over a stored session

\* A session is stored; LoginScreen starts logins (to the session's vault or
\* to another one) while one API call is made.
ReloginInit ==
  /\ store \in SessionStores
  /\ lastStored = PayloadOf(store)
  /\ issuer = IssuerOf(store)
  /\ nativeId = 1
  /\ uuidCount = 0
  /\ destinations = <<>>
  /\ destOp = [p \in DestCallers |-> IdleOp]
  /\ nextId = 0
  /\ call = IdleCall
  /\ pkce = IdlePkce
  /\ now = 0
  /\ req = [r \in Req |-> IdleReq]
  /\ isRefreshing = FALSE
  /\ refreshQueue = <<>>
  /\ issued = 1
  /\ refreshSent = [gat |-> 0, recover |-> 0]
  /\ recoveryCalls = 0
  /\ recoverySettled = 0
  /\ flow = [f \in Flows |-> IdleFlow]
  /\ tokenRequests = <<>>

ReloginNext ==
  \/ \E v \in VaultInputs : HandleLogin(v)
  \/ StartLoginStorePkce
  \/ StartLoginOpenBrowser
  \/ \E url \in CallbackUrls : BrowserSuccess(url)
  \/ \E type \in {"cancel", "dismiss", "locked"} : BrowserOther(type)
  \/ HandleCallbackState(0)
  \/ ExchangeCheck(0)
  \/ ExchangeFails(0)
  \/ \E data \in TokenPayloads : ExchangeSucceeds(0, data)
  \/ TokensStored(0)
  \/ CleanupClear
  \/ LoginDone
  \/ ApiCall(1)
  \/ RequestStep(1)

ReloginSpec == ReloginInit /\ [][ReloginNext]_vars

\* ------------------------------------------------------ PKCE specification

\* The patterns the state is drawn with (a sample of BytePatterns).
StatePatterns == {p \in BytePatterns : p[1] = p[2] /\ p[2] = p[3]}

PkceNext ==
  \/ \E p \in BytePatterns : GenerateCodeVerifier(p)
  \/ GenerateCodeVerifierReturns
  \/ GenerateCodeChallengeReturns
  \/ \E p \in StatePatterns : GenerateState(p)
  \/ StartLoginBuildsUrl
  \/ StartLoginEnds

PkceSpec == DestInit /\ [][PkceNext]_vars

\* ------------------------------------------------ token expiry specification

\* One caller adds and removes destinations with any of the tokens while the
\* clock advances.
ExpiryNext ==
  \/ \E server \in ServerInputs : \E token \in TokenInputs :
       AddDestination(1, server, token, Null)
  \/ AddDestinationWrite(1)
  \/ \E id \in 1..UnknownId : RemoveDestination(1, id)
  \/ RemoveDestinationWrite(1)
  \/ \E id \in 1..UnknownId : GetDestination(1, id)
  \/ GetDestinationReturns(1)
  \/ DestinationCallReturns(1)
  \/ Tick

ExpirySpec == DestInit /\ [][ExpiryNext]_vars

\* ------------------------------------------------------------------- claims

AllDone == \A r \in Req : req[r].pc = "done"

\* Every call received its first 401/token_expired while all calls were in
\* flight and before any recovery refresh had completed.
HerdAll == \A r \in Req : req[r].herd

RefreshErrorKinds ==
  {"no_vault_url", "no_refresh_token", "refresh_failed", "no_access_token"}

C1_Safe ==
  HerdAll =>
    /\ recoveryCalls = 1
    /\ refreshSent.recover <= 1
    /\ recoverySettled >= 1 =>
         refreshSent.recover =
           IF \E r \in Req : req[r].err.kind \in {"no_vault_url", "no_refresh_token"}
           THEN 0 ELSE 1
    /\ AllDone =>
         \/ \A r \in Req : req[r].sends = 2
         \/ \E e \in {req[r].err : r \in Req} :
              /\ e.kind \in RefreshErrorKinds
              /\ \A r \in Req : /\ req[r].result = "rejected"
                                /\ req[r].err = e
                                /\ req[r].sends = 1

\* C1 (amended): when all N >= 2 calls are in flight and each receives
\* 401/token_expired before any recovery refresh has completed, the 401
\* recovery runs refreshToken() exactly once and sends at most one refresh
\* request (exactly one unless the vault URL or the refresh token is not
\* stored), and every call eventually completes: all retried once, or all
\* rejected with the one refresh error.
C1_SingleRecoveryRefresh == [] C1_Safe /\ (HerdAll ~> AllDone)

\* C1 witness: the herd was served by one refresh request and all were retried.
C1_Witness ==
  /\ HerdAll /\ AllDone
  /\ refreshSent.recover = 1
  /\ \A r \in Req : req[r].sends = 2

\* C1 as stated: exactly one refresh request is sent for the herd (of calls
\* that carried a bearer token).
C1_ExactlyOneRefreshRequest ==
  (HerdAll /\ AllDone /\ \A r \in Req : req[r].auth # NoAuth)
    => refreshSent.gat + refreshSent.recover = 1

\* C2 as stated: at most one refresh request is in flight at any moment,
\* proactive and reactive refreshes together.
C2_AtMostOneRefreshInFlight ==
  Cardinality({r \in Req : req[r].pc = "rt_post"}) <= 1

\* C3 as stated: overlapping getAccessToken() calls that read the same expiry
\* within the buffer do not both call refreshToken().
C3_SingleProactiveRefresh ==
  \A r1, r2 \in Req :
    (/\ r1 # r2
     /\ req[r1].pc = "rt_check" /\ req[r1].rtCaller = "gat"
     /\ req[r2].pc = "rt_check" /\ req[r2].rtCaller = "gat")
    => req[r1].expiresAt # req[r2].expiresAt

\* The token requests flow f sent in its current attempt.
RequestsOf(f) ==
  {i \in 1..Len(tokenRequests) :
     tokenRequests[i].by = f /\ tokenRequests[i].attempt = flow[f].attempt}

\* C4 as stated: when handleLogin has run to completion on a successful
\* login (callback accepted, code exchanged, tokens stored, cleanup done),
\* its token request carried the verifier its startLogin generated and an
\* access token is stored, so isAuthenticated() is true.
C4_LoginLeavesSession ==
  (flow[0].pc = "done" /\ flow[0].outcome = "success") =>
    /\ \E i \in RequestsOf(0) :
         tokenRequests[i].code_verifier = flow[0].codeVerifier
    /\ store.accessToken # Null
    /\ isAuthenticated(store)

\* C5: handleCallback on a URL with code and state whose state differs from
\* the stored state fails with the state-mismatch error; the flow that
\* called it ends there: it sends no token request and stores nothing.
C5_StateMismatchStopsLogin ==
  /\ [](\A f \in Flows :
          flow[f].errKind = "state_mismatch" => RequestsOf(f) = {})
  /\ [][\A f \in Flows :
          (/\ flow[f].pc = "hc_state" /\ flow'[f] # flow[f]
           /\ flow[f].url.state # flow[f].storedState)
          => /\ flow'[f].pc = "done" /\ flow'[f].outcome = "error"
             /\ flow'[f].errKind = "state_mismatch"
             /\ tokenRequests' = tokenRequests
             /\ store' = store
       ]_vars

\* C5 witness: during a login attempt a callback with another state was
\* rejected with the state-mismatch error.
C5_Witness ==
  \E f \in Flows :
    /\ flow[f].pc = "done" /\ flow[f].errKind = "state_mismatch"
    /\ flow[f].url.code # Null /\ flow[f].url.state # Null
    /\ flow[f].storedState # Null
    /\ flow[f].url.state # flow[f].storedState

\* Call r took a step (only a drain changes another call's record, and it
\* changes only queued calls).
Stepped(r) == req'[r] # req[r]

\* The refreshToken() that call r runs for the 401 recovery throws: before
\* the request (a missing vault URL or refresh token), or on its outcome.
RecoveryRefreshFails(r) ==
  /\ req[r].rtCaller = "recover"
  /\ \/ req[r].pc = "rt_check" /\ req'[r].pc \notin {"rt_check", "rt_post"}
     \/ req[r].pc = "rt_post" /\ req'[r].pc \notin {"rt_post", "rt_stored"}

LoggedOut(s) ==
  /\ s.vaultUrl = Null /\ s.codeVerifier = Null /\ s.state = Null
  /\ s.accessToken = Null /\ s.refreshToken = Null /\ s.expiry = Null

\* C6: when the refresh owned by the 401 recovery fails, every call waiting
\* in the refresh queue is rejected with that refresh error and the queue is
\* emptied, logout() is performed, and once logout() has completed the owner
\* is rejected with the same error and the refresh flag is cleared.
C6_RefreshFailureRejectsAll ==
  [][\A r \in Req :
       /\ RecoveryRefreshFails(r) =>
            /\ req'[r].pc = "rec_logout"
            /\ req'[r].err.kind \in RefreshErrorKinds /\ req'[r].err.by = r
            /\ \A x \in Req : InQueue(x) =>
                 /\ req'[x].pc = "done" /\ req'[x].result = "rejected"
                 /\ req'[x].err = req'[r].err
                 /\ req'[x].sends = 1
            /\ refreshQueue' = <<>>
            /\ LoggedOut(store') /\ store'.deviceId = store.deviceId
            /\ isRefreshing'
       /\ (req[r].pc = "rec_logout" /\ Stepped(r)) =>
            /\ req'[r].pc = "done" /\ req'[r].result = "rejected"
            /\ req'[r].err = req[r].err
            /\ ~isRefreshing'
    ]_vars

\* C6 witness: an owner and a queued call were rejected with the error of
\* the owner's failed refresh request.
C6_Witness ==
  \E r, x \in Req :
    /\ r # x
    /\ req[r].pc = "done" /\ req[x].pc = "done"
    /\ req[r].err = RefreshError("refresh_failed", r)
    /\ req[x].err = req[r].err /\ req[x].result = "rejected"
    /\ ~isRefreshing

\* C7 as stated: when getAccessToken() returns null after its refresh failed
\* and it logged out, no access token, refresh token, expiry or vault URL is
\* stored and isAuthenticated() is false.
C7_LoggedOutWhenNullReturned ==
  [][\A r \in Req :
       (req[r].pc = "gat_logout" /\ Stepped(r)) =>
         /\ store'.accessToken = Null /\ store'.refreshToken = Null
         /\ store'.expiry = Null /\ store'.vaultUrl = Null
         /\ ~isAuthenticated(store')
    ]_vars

\* C8 as stated: recovery is entered only on 401/token_expired for a call
\* not yet retried, every call is sent at most twice, and every call that was
\* sent (here: with a bearer token) completes.
C8_RetryOnceAndTerminate ==
  /\ [](\A r \in Req : req[r].sends <= 2)
  /\ [][\A r \in Req :
          (req[r].pc = "sent" /\ req'[r].pc \in {"queued", "rt_check"})
            => (req'[r].resp = "expired401" /\ ~req[r].retried)]_vars
  /\ \A r \in Req :
       (req[r].pc = "sent" /\ req[r].auth # NoAuth) ~> (req[r].pc = "done")

\* C9: a failed response that is not 401/token_expired, or that answers a
\* call already retried, rejects the call with that response's error and
\* changes nothing else: no refresh request, no logout, and the store, the
\* refresh flag, the refresh queue and the other calls stay as they are.
C9_OtherErrorsSurfaceAsIs ==
  [][\A r \in Req :
       (/\ req[r].pc = "sent" /\ Stepped(r)
        /\ req'[r].resp # "ok"
        /\ (req'[r].resp # "expired401" \/ req[r].retried))
       => /\ req'[r].pc = "done" /\ req'[r].result = "rejected"
          /\ req'[r].err = [kind |-> req'[r].resp, by |-> r]
          /\ req'[r].sends = req[r].sends
          /\ store' = store
          /\ isRefreshing' = isRefreshing
          /\ refreshQueue' = refreshQueue
          /\ refreshSent' = refreshSent
          /\ recoveryCalls' = recoveryCalls
          /\ \A x \in Req \ {r} : req'[x] = req[x]
    ]_vars

\* C9 witness: a call that was retried once and then answered 401/token_expired
\* again was rejected with that response.
C9_Witness ==
  \E r \in Req :
    /\ req[r].pc = "done" /\ req[r].retried /\ req[r].sends = 2
    /\ req[r].err = ResponseError("expired401", r)

\* C10: getAccessToken() with a stored token and expiry E returns the stored
\* token without a refresh request when E - now > 60 s, and calls
\* refreshToken() when E - now <= 60 s.
C10_ExpiryBuffer ==
  [][\A r \in Req :
       (/\ req[r].pc = "gat_check" /\ Stepped(r)
        /\ req[r].accessToken # Null /\ req[r].expiresAt # Null)
       => IF req[r].expiresAt - now > 60000
          THEN /\ req'[r].auth = req[r].accessToken
               /\ req'[r].pc # "rt_check"
               /\ refreshSent' = refreshSent
               /\ store' = store
          ELSE /\ req'[r].pc = "rt_check" /\ req'[r].rtCaller = "gat"
               /\ req'[r].sends = req[r].sends
    ]_vars

\* C10 witness: a token that expires in exactly 60 s is being refreshed.
C10_Witness ==
  \E r \in Req :
    /\ req[r].pc = "rt_check" /\ req[r].rtCaller = "gat"
    /\ req[r].expiresAt - now = 60000

\* C11 as stated: while the access token of a payload without expires_in is
\* the stored one, no expiry is stored, whatever was stored before, and a
\* getAccessToken() that read that token read no expiry with it (so it
\* returns the token without a proactive refresh).
C11_NoExpiryWithoutExpiresIn ==
  (/\ lastStored.access_token # Null /\ lastStored.expires_in = 0
   /\ store.accessToken = lastStored.access_token)
  => /\ store.expiry = Null
     /\ \A r \in Req :
          (req[r].pc = "gat_check" /\ req[r].accessToken = lastStored.access_token)
            => req[r].expiresAt = Null

\* Call r performs logout(): in the catch block of getAccessToken or of the
\* 401 recovery.
PerformsLogout(r) ==
  /\ req[r].pc \notin {"gat_logout", "rec_logout"}
  /\ req'[r].pc \in {"gat_logout", "rec_logout"}

\* C12: logout() deletes the vault origin, the code verifier, the state, the
\* access token, the refresh token and the expiry, and leaves the device
\* identifier as it was.
C12_LogoutKeepsDeviceId ==
  [][\A r \in Req :
       PerformsLogout(r) =>
         /\ store'.vaultUrl = Null /\ store'.codeVerifier = Null
         /\ store'.state = Null /\ store'.accessToken = Null
         /\ store'.refreshToken = Null /\ store'.expiry = Null
         /\ store'.deviceId = store.deviceId
    ]_vars

\* C12 witness: getAccessToken() has logged out of a session; the device
\* identifier is still stored.
C12_Witness ==
  \E r \in Req :
    /\ req[r].pc = "gat_logout"
    /\ LoggedOut(store) /\ store.deviceId = 1

\* C13 as stated: every token exchange request carries the same device_id,
\* the one getDeviceId() generated first, and while an identifier is stored
\* it is that one.
C13_StableDeviceId ==
  /\ \A i, j \in 1..Len(tokenRequests) :
       tokenRequests[i].device_id = tokenRequests[j].device_id
  /\ (tokenRequests # <<>> /\ store.deviceId # Null)
       => store.deviceId = tokenRequests[1].device_id

\* C14 as stated: no code verifier is sent in two token exchange requests,
\* and a login that completed sent one.
C14_VerifierSentOnce ==
  /\ \A i, j \in 1..Len(tokenRequests) :
       i # j => tokenRequests[i].code_verifier # tokenRequests[j].code_verifier
  /\ \A f \in Flows :
       (flow[f].pc = "done" /\ flow[f].outcome = "success") => RequestsOf(f) # {}

\* C15 as stated: once a login has stored its tokens and completed, the state
\* its callback was validated against is no longer stored (so the same
\* callback URL would fail state validation).
C15_StateGoneAfterLogin ==
  \A f \in Flows :
    (flow[f].pc = "done" /\ flow[f].outcome = "success")
      => store.state # flow[f].storedState

\* C16 as stated: the stored list never holds two destinations whose servers
\* normalize to the same origin.
C16_OnePerOrigin ==
  \A i, j \in 1..Len(destinations) :
    i # j => normalizeServerUrl(destinations[i].server)
               # normalizeServerUrl(destinations[j].server)

\* Caller p's addDestination writes, having read the list as it is stored now
\* (no other write came between its read and its write).
AddWrites(p) ==
  /\ destOp[p].pc = "add_read" /\ destOp'[p].pc = "add_written"
  /\ destOp[p].list = destinations

\* The positions of the stored entries whose server is srv.
EntriesFor(list, srv) == {k \in 1..Len(list) : list[k].server = srv}

\* C17 as stated: an addDestination for a server that normalizes to the
\* server of a stored entry (as an earlier addDestination stored it), with
\* another token, leaves exactly one entry for it, with the new token and
\* name and the id of the stored entry.
C17_SecondAddOverwrites ==
  [][\A p \in DestCallers :
       \A i \in 1..Len(destinations) :
         (/\ AddWrites(p)
          /\ destinations[i].server = destOp[p].normalized
          /\ destinations[i].token # destOp[p].token)
         => LET after == EntriesFor(destinations', destOp[p].normalized)
            IN /\ Cardinality(after) = 1
               /\ \A k \in after :
                    /\ destinations'[k].token = destOp[p].token
                    /\ destinations'[k].name =
                         DestName(destOp[p].name, destOp[p].normalized)
                    /\ destinations'[k].id = destinations[i].id
    ]_vars

\* C18 as stated: an addDestination that finds an entry for its server
\* updates it where it is: the list keeps its length, the entry keeps its
\* position and its id, and every other entry stays as and where it was.
C18_UpdatedInPlace ==
  [][\A p \in DestCallers :
       LET i == FindIndex(destinations, destOp[p].normalized)
       IN (AddWrites(p) /\ i # 0)
          => /\ Len(destinations') = Len(destinations)
             /\ destinations'[i].id = destinations[i].id
             /\ \A k \in 1..Len(destinations) :
                  k # i => destinations'[k] = destinations[k]
    ]_vars

\* The origin of a server URL: scheme + host in lower case, without path,
\* query or trailing slash.
OriginOf(server) ==
  [url |-> TRUE, host |-> server.host, upper |-> FALSE, path |-> FALSE,
   slashes |-> 0]

\* C19: normalizeServerUrl maps a server URL to its origin, and an
\* addDestination whose server URL has the origin of a stored destination
\* addresses that destination: afterwards one entry has that origin, with the
\* id the stored one had and the new token.
C19_NormalizedToOrigin ==
  /\ [](\A p \in DestCallers :
          (destOp[p].pc = "add_read" /\ destOp[p].server.url)
            => destOp[p].normalized = OriginOf(destOp[p].server))
  /\ [][\A p \in DestCallers :
          \A i \in 1..Len(destinations) :
            (/\ AddWrites(p) /\ destOp[p].server.url
             /\ destinations[i].server = OriginOf(destOp[p].server))
            => LET after == EntriesFor(destinations', OriginOf(destOp[p].server))
               IN /\ Cardinality(after) = 1
                  /\ \A k \in after :
                       /\ destinations'[k].id = destinations[i].id
                       /\ destinations'[k].token = destOp[p].token
       ]_vars

\* C19 witness: "https://Vault.Example.com/foo/bar" was added, then
\* "https://vault.example.com": one destination is stored, with the id the
\* first call assigned.
C19_Witness ==
  \E p, q \in DestCallers :
    /\ p # q
    /\ destOp[q].pc = "add_written"
    /\ destOp[q].server.upper /\ destOp[q].server.path
    /\ destOp[p].pc = "add_written"
    /\ destOp[p].server =
         [url |-> TRUE, host |-> 1, upper |-> FALSE, path |-> FALSE, slashes |-> 0]
    /\ Len(destinations) = 1 /\ nextId = 1
    /\ destinations[1].server = OriginOf(destOp[q].server)

\* Flow f calls handleCallback(url): handleLogin on the browser's result,
\* handleUrl on a deep link.
CallsHandleCallback(f) ==
  /\ flow[f].pc = (IF f = 0 THEN "browser" ELSE "idle")
  /\ flow'[f] # flow[f]
  /\ flow'[f].outcome \notin {"cancelled", "failed"}

\* C20: handleCallback(url) fails with the authorization error (carrying
\* error_description, or the error code without one) when url has an error
\* parameter; else with the missing-code error when it has no code; else
\* with the missing-state error when it has no state; else with the state
\* mismatch when its state is not the stored one; else it returns the code.
\* It never changes the store.
C20_CallbackCheckOrder ==
  [][\A f \in Flows :
       /\ CallsHandleCallback(f) =>
            LET u == flow'[f].url
                failed == flow'[f].pc = "done" /\ flow'[f].outcome = "error"
            IN /\ store' = store
               /\ IF u.error # Null
                  THEN /\ failed /\ flow'[f].errKind = "authorization_error"
                       /\ flow'[f].errDetail =
                            (IF u.error_description # Null
                             THEN u.error_description ELSE u.error)
                  ELSE IF u.code = Null
                  THEN failed /\ flow'[f].errKind = "missing_code"
                  ELSE IF u.state = Null
                  THEN failed /\ flow'[f].errKind = "missing_state"
                  ELSE /\ flow'[f].pc = "hc_state"
                       /\ flow'[f].storedState = store.state
       /\ (flow[f].pc = "hc_state" /\ flow'[f] # flow[f]) =>
            /\ store' = store
            /\ IF flow[f].url.state # flow[f].storedState
               THEN /\ flow'[f].pc = "done" /\ flow'[f].outcome = "error"
                    /\ flow'[f].errKind = "state_mismatch"
               ELSE /\ flow'[f].pc = "ex_read"
                    /\ flow'[f].code = flow[f].url.code
    ]_vars

\* C20 witness: during a login attempt a callback URL without code and
\* without state was rejected with the missing-code error, and the verifier
\* and the state of the attempt are still stored.
C20_Witness ==
  \E f \in Flows :
    /\ flow[f].pc = "done" /\ flow[f].errKind = "missing_code"
    /\ flow[f].url = NoUrl
    /\ store.state # Null /\ store.codeVerifier # Null

\* C21: exchangeCodeForToken that finds no vault origin stored fails with
\* the missing-origin error, and one that finds an origin but no code
\* verifier fails with the missing-verifier error; in both cases no token
\* request is sent and the store is not changed.
C21_ExchangeNeedsOriginAndVerifier ==
  [][\A f \in Flows :
       (/\ flow[f].pc = "ex_read" /\ flow'[f] # flow[f]
        /\ (flow[f].exVaultUrl = Null \/ flow[f].exVerifier = Null))
       => /\ flow'[f].pc = "done" /\ flow'[f].outcome = "error"
          /\ flow'[f].errKind = (IF flow[f].exVaultUrl = Null
                                 THEN "no_vault_url" ELSE "no_verifier")
          /\ tokenRequests' = tokenRequests
          /\ store' = store
    ]_vars

\* C21 witness: an exchange found the vault origin of a new login attempt
\* but no verifier, and failed; no token request carries its code.
C21_Witness ==
  \E f \in Flows :
    /\ flow[f].pc = "done" /\ flow[f].errKind = "no_verifier"
    /\ store.vaultUrl # Null
    /\ RequestsOf(f) = {}

\* Application code calls method m.
Calls(m) == Callable /\ call' # call /\ call'.method = m

\* C22: storeTokens(payload) with a payload that has no access_token fails
\* with the invalid-token-response error and changes nothing in the store:
\* the stored access token, refresh token and expiry stay as they were.
C22_StoreTokensNeedsAccessToken ==
  [][(Calls("storeTokens") /\ call'.tokens.access_token = Null)
       => /\ call'.pc = "done" /\ call'.err = "no_access_token"
          /\ store'.accessToken = store.accessToken
          /\ store'.refreshToken = store.refreshToken
          /\ store'.expiry = store.expiry
          /\ store' = store
    ]_vars

\* C22 witness: storeTokens rejected a payload without access_token while a
\* full token set was stored, and the token set is still stored.
C22_Witness ==
  /\ call.pc = "done" /\ call.method = "storeTokens"
  /\ call.err = "no_access_token" /\ call.tokens.access_token = Null
  /\ store.accessToken # Null /\ store.refreshToken # Null /\ store.expiry # Null

\* C23: refreshToken() that finds no vault origin or no refresh token fails
\* without sending a request; whenever refreshToken() fails (so, or by a
\* failed request, or by a response that storeTokens rejects) the caller gets
\* the error, and the stored vault origin, access token, refresh token and
\* expiry are as they were: refreshToken() does not log out.
C23_RefreshFailureLeavesStore ==
  [][/\ (/\ call.pc = "rt_check" /\ call' # call
         /\ (call.rtVaultUrl = Null \/ call.rtRefreshToken = Null))
        => /\ call'.pc = "done" /\ call'.sent = 0
           /\ call'.err = (IF call.rtVaultUrl = Null
                           THEN "no_vault_url" ELSE "no_refresh_token")
     /\ (/\ call.method = "refreshToken" /\ call.pc \in {"rt_check", "rt_post"}
         /\ call'.pc = "done")
        => /\ call'.err \in RefreshErrorKinds
           /\ call'.result = "none"
           /\ store'.vaultUrl = store.vaultUrl
           /\ store'.accessToken = store.accessToken
           /\ store'.refreshToken = store.refreshToken
           /\ store'.expiry = store.expiry
           /\ store' = store
    ]_vars

\* C23 witness: the refresh request of a refreshToken() call failed; the
\* session is still stored.
C23_Witness ==
  /\ call.pc = "done" /\ call.method = "refreshToken"
  /\ call.err = "refresh_failed" /\ call.sent = 1
  /\ store.vaultUrl # Null /\ store.accessToken # Null /\ store.refreshToken # Null

\* C24: isAuthenticated() resolves to true exactly when an access token is
\* stored, whatever the stored expiry; it changes nothing in the store and
\* sends no request.
C24_IsAuthenticatedIffToken ==
  [][/\ Calls("isAuthenticated") =>
          /\ call'.result = (IF store.accessToken # Null THEN "true" ELSE "false")
          /\ call'.sent = 0
          /\ store' = store
     /\ (call.method = "isAuthenticated" /\ call' # call /\ ~Callable) =>
          /\ call'.pc = "done" /\ call'.result = call.result
          /\ call'.err = "none" /\ call'.sent = 0
          /\ store' = store
    ]_vars

\* C24 witness: isAuthenticated() answered true for a token that has expired.
C24_Witness ==
  /\ call.pc = "done" /\ call.method = "isAuthenticated" /\ call.result = "true"
  /\ store.expiry # Null /\ now >= store.expiry

\* Call r is sent in this step.
IsSent(r) == req'[r].sends = req[r].sends + 1

\* C25: a request is sent only in the step in which its preparation's
\* getAccessToken() returns, t being the value returned; the vault origin the
\* preparation resolved is the stored one; the request goes out with that
\* origin less one trailing slash as base origin and with Bearer t; when t is
\* null a request sent for the first time has no Authorization header (and
\* with no origin resolved it has no base origin).
C25_SentAsPrepared ==
  [][\A r \in Req :
       /\ (req[r].vaultUrl = Null /\ req'[r].vaultUrl # Null)
            => req'[r].vaultUrl = store.vaultUrl
       /\ IsSent(r) =>
            LET t == req[r].accessToken IN
            /\ req[r].phase = "prep"
            /\ req[r].pc \in {"gat_check", "gat_ret", "gat_logout"}
            /\ req[r].pc = "gat_check" =>
                 (t = Null \/ ~isExpiringSoon(req[r].expiresAt, now))
            /\ req[r].pc = "gat_logout" => t = Null
            /\ req'[r].pc = "sent"
            /\ req[r].vaultUrl # Null =>
                 req'[r].baseURL = StripSlash(req[r].vaultUrl)
            /\ t # Null => req'[r].auth = t
            /\ (t = Null /\ req[r].sends = 0) => req'[r].auth = NoAuth
            /\ (req[r].vaultUrl = Null /\ req[r].sends = 0) =>
                 req'[r].baseURL = Null
    ]_vars

\* C25 witness: a request was sent for the first time to the stored origin
\* without its trailing slash, with the token a proactive refresh stored.
C25_Witness ==
  \E r \in Req :
    /\ req[r].pc = "sent" /\ req[r].sends = 1
    /\ store.vaultUrl = VaultUrl(1, 1) /\ req[r].baseURL = VaultUrl(1, 0)
    /\ req[r].auth = 2 /\ store.accessToken = 2

\* The refresh owner o releases the queue with the token it obtained: its
\* refreshToken() has returned and its getAccessToken() returns in this step.
ReleasedBy(o, r) ==
  /\ req[o].phase = "recover"
  /\ req[o].pc \in {"gat_check", "gat_ret", "gat_logout"}
  /\ req'[o].pc = "gat_check" /\ req'[o].phase = "prep"
  /\ req'[o].auth = req[o].accessToken
  /\ req'[r].resumed = req[o].accessToken
  /\ req'[r].auth = req[o].accessToken

\* A queued call leaves the queue either released by the refresh owner after
\* its refresh succeeded, or rejected without having been sent again; a
\* released call is sent again once and no more.
QueuedRetriedOnce ==
  \A r \in Req :
    /\ (req[r].pc = "queued" /\ req'[r].pc # "queued")
         => \/ /\ req'[r].pc = "gat_check" /\ req'[r].sends = 1
               /\ \E o \in Req \ {r} : ReleasedBy(o, r)
            \/ /\ req'[r].pc = "done" /\ req'[r].result = "rejected"
               /\ req'[r].sends = 1 /\ req'[r].resumed = NoAuth
    /\ req[r].pc = "queued" => (~IsSent(r) /\ req[r].resumed = NoAuth)
    /\ (IsSent(r) /\ req[r].resumed # NoAuth) => req[r].sends = 1
    /\ req[r].pc = "done" => req'[r] = req[r]

\* A released call that is waiting to be sent again is sent.
C26_ReleasedIsSent ==
  \A r \in Req :
    (req[r].resumed # NoAuth /\ req[r].sends = 1) ~> (req[r].sends = 2)

\* C26 as stated: a queued call is retried exactly once, only when the
\* refresh it waited for has succeeded, and is sent with the access token the
\* refresh owner obtained; it is not retried when the refresh fails.
C26_RetriedWithOwnersToken ==
  /\ [][/\ QueuedRetriedOnce
        /\ \A r \in Req :
             (IsSent(r) /\ req[r].resumed # NoAuth)
               => req'[r].auth = req[r].resumed
       ]_vars
  /\ C26_ReleasedIsSent

\* C26 amended: as above, but the retry passes the request interceptor
\* again, so it is sent with the token that preparation's getAccessToken()
\* returned, and with the owner's token only when that returned null.
C26_RetriedWithPreparedToken ==
  /\ [][/\ QueuedRetriedOnce
        /\ \A r \in Req :
             (IsSent(r) /\ req[r].resumed # NoAuth)
               => req'[r].auth = (IF req[r].accessToken # Null
                                  THEN req[r].accessToken ELSE req[r].resumed)
       ]_vars
  /\ C26_ReleasedIsSent

\* C26 witness: a queued call was released with the owner's new token and
\* sent again with it.
C26_Witness ==
  \E r \in Req :
    /\ req[r].pc = "sent" /\ req[r].sends = 2
    /\ req[r].resumed = 2 /\ req[r].auth = 2

\* Flow f's storeTokens issues its writes in this step: handleCallback has
\* returned a code to f and the token request f sent with it was answered
\* with a payload that has an access token.
StoresTokens(f) ==
  /\ flow[f].pc = "ex_post" /\ flow'[f].pc = "st_stored"
  /\ flow[f].code # Null
  /\ \E i \in RequestsOf(f) : tokenRequests[i].code = flow[f].code
  /\ HasAccessToken(lastStored')
  /\ store' = storeTokens(store, lastStored', now)

\* C27: in a login flow the stored tokens change to new values only when
\* storeTokens runs after handleCallback accepted the callback and the code
\* exchange of that flow was answered; a flow that ends cancelled, failed or
\* with an error (callback error, failed exchange) has stored no tokens, and
\* a cancelled or dismissed browser session ends the flow without an error.
C27_TokensOnlyAfterExchange ==
  [][/\ (\/ store'.accessToken \notin {Null, store.accessToken}
         \/ store'.refreshToken \notin {Null, store.refreshToken}
         \/ store'.expiry \notin {Null, store.expiry})
        => \E f \in Flows : StoresTokens(f)
     /\ \A f \in Flows :
          /\ (flow[f].pc # "done" /\ flow'[f].pc = "done"
              /\ flow'[f].outcome # "success")
               => /\ flow[f].pc \notin {"st_stored", "cl_read", "cl_clear"}
                  /\ store' = store
          /\ (flow[f].pc \notin {"ex_post", "st_stored"}
              /\ flow'[f].pc = "st_stored") => FALSE
          /\ (flow[f].pc = "st_stored" /\ flow'[f].pc = "done")
               => flow'[f].outcome = "success"
          /\ (flow[f].pc # "done" /\ flow'[f].pc = "done"
              /\ flow'[f].resultType \in {"cancel", "dismiss"})
               => /\ flow'[f].outcome = "cancelled"
                  /\ flow'[f].errKind = "none"
    ]_vars

\* C27 witness: the browser session of a login was dismissed, which ended
\* handleLogin without an error, while the deep-link handler accepted the
\* callback of that attempt, exchanged the code and stored the tokens.
C27_Witness ==
  /\ flow[0].pc = "done" /\ flow[0].outcome = "cancelled"
  /\ flow[0].resultType = "dismiss" /\ flow[0].errKind = "none"
  /\ \E f \in Flows \ {0} :
       /\ flow[f].pc = "done" /\ flow[f].outcome = "success"
       /\ RequestsOf(f) # {}
  /\ store.accessToken # Null

\* The expiresAt claim of token, when it is a number.
HasNumericExpiry(token) == DecodeToken(token).ok /\ DecodeToken(token).numeric

\* The instant s * 1000 ms for the numeric claim s of token.
ClaimedExpiry(token) ==
  Timestamp(DecodeToken(token).exp.days, DecodeToken(token).exp.secs * 1000)

\* C28 as stated: every stored destination whose token carries a numeric
\* expiresAt claim of s seconds has expiresAt = the timestamp of s * 1000 ms.
C28_ExpiryFromToken ==
  \A i \in 1..Len(destinations) :
    HasNumericExpiry(destinations[i].token)
      => destinations[i].expiresAt = ClaimedExpiry(destinations[i].token)

\* C28 amended: every stored destination whose token carries a numeric
\* expiresAt claim of s seconds, s * 1000 ms being a time a Date can hold, has
\* expiresAt = the timestamp of s * 1000 ms.
C28_ExpiryFromTokenInRange ==
  \A i \in 1..Len(destinations) :
    (/\ HasNumericExpiry(destinations[i].token)
     /\ ValidDate(ClaimedExpiry(destinations[i].token)))
      => destinations[i].expiresAt = ClaimedExpiry(destinations[i].token)

\* C28 witness: destinations are stored with 1970-01-01T00:00:05.000Z for the
\* claim 5 and with 2030-01-01T00:00:00.000Z for the claim 1893456000.
C28_Witness ==
  /\ \E i \in 1..Len(destinations) :
       /\ destinations[i].token = 1
       /\ destinations[i].expiresAt = Timestamp(0, 5000)
  /\ \E i \in 1..Len(destinations) :
       /\ destinations[i].token = 5
       /\ destinations[i].expiresAt = Timestamp(21915, 0)

\* C29: addDestination with a token that does not decode, or whose payload
\* has no numeric expiresAt claim, writes the list with the new destination
\* last, its expiresAt 30 days after the time of the write, and returns.
C29_DefaultExpiry ==
  [][\A p \in DestCallers :
       /\ (/\ destOp[p].pc = "add_read" /\ destOp'[p] # destOp[p]
           /\ ~HasNumericExpiry(destOp[p].token))
            => /\ destOp'[p].pc = "add_written"
               /\ Len(destinations') >= 1
               /\ destinations'[Len(destinations')].token = destOp[p].token
               /\ destinations'[Len(destinations')].server = destOp[p].normalized
               /\ destinations'[Len(destinations')].expiresAt = Timestamp(30, now)
       /\ (destOp[p].pc = "add_written" /\ destOp'[p] # destOp[p])
            => destOp'[p].pc = "idle"
    ]_vars

\* C29 witness: destinations added with a token that does not decode and
\* with a token whose expiresAt claim is a string, at different times.
C29_Witness ==
  /\ Len(destinations) = 2
  /\ destinations[1].token = 2 /\ destinations[1].expiresAt = Timestamp(30, 0)
  /\ destinations[2].token = 3 /\ destinations[2].expiresAt = Timestamp(30, TickMs)

\* C30 as stated: the write of removeDestination(id) takes exactly the
\* destination with that id out of the stored list, every other destination
\* staying as and where it was (a list without the id stays as it is); once
\* the write is done, what getDestination(id) looks up in the stored list is
\* null.
C30_RemovesExactlyThatId ==
  /\ [][\A p \in DestCallers :
          (destOp[p].pc = "rm_read" /\ destOp'[p].pc = "rm_written")
            => /\ destinations' = WithoutId(destinations, destOp[p].id)
               /\ \A k \in 1..Len(destinations') :
                    destinations'[k].id # destOp[p].id
               /\ (\A k \in 1..Len(destinations) :
                     destinations[k].id # destOp[p].id)
                    => destinations' = destinations
       ]_vars
  /\ [](\A p \in DestCallers :
          destOp[p].pc = "rm_written"
            => FindById(destinations, destOp[p].id) = NoDest)

\* The characters A-Z a-z 0-9 '-' '_'.
UrlSafe(c) == c \in 0..61 \/ c = Dash \/ c = Underscore

\* C31: the code verifier generateCodeVerifier() returns for 32 random bytes
\* has exactly 43 characters, each of them one of A-Z a-z 0-9 '-' '_': it
\* contains no '+', no '/' and no '='.
C31_VerifierIs43UrlSafeChars ==
  pkce.pc \notin {"idle", "bytes"}
    => /\ Len(pkce.codeVerifier) = 43
       /\ \A i \in 1..Len(pkce.codeVerifier) :
            /\ UrlSafe(pkce.codeVerifier[i])
            /\ pkce.codeVerifier[i] \notin {Plus, Slash, Pad}

\* C31 witness: a verifier was returned for bytes whose Base64 form has '+'
\* and '/' characters and padding; it has '-' and '_' in their places.
C31_Witness ==
  /\ pkce.pc = "verifier"
  /\ \E i \in 1..Len(btoa(pkce.randomBytes)) : btoa(pkce.randomBytes)[i] = Plus
  /\ \E i \in 1..Len(btoa(pkce.randomBytes)) : btoa(pkce.randomBytes)[i] = Slash
  /\ btoa(pkce.randomBytes)[44] = Pad
  /\ \E i \in 1..43 : pkce.codeVerifier[i] = Dash
  /\ \E i \in 1..43 : pkce.codeVerifier[i] = Underscore

\* RFC 4648 base64url without padding, from the bits: bit k of the byte
\* stream (zero past its end), six bits per character.
BitAt(bytes, k) ==
  IF k >= 8 * Len(bytes) THEN 0
  ELSE (bytes[(k \div 8) + 1] \div (2 ^ (7 - (k % 8)))) % 2

Sextet(bytes, j) ==
  32 * BitAt(bytes, 6 * j) + 16 * BitAt(bytes, 6 * j + 1)
  + 8 * BitAt(bytes, 6 * j + 2) + 4 * BitAt(bytes, 6 * j + 3)
  + 2 * BitAt(bytes, 6 * j + 4) + BitAt(bytes, 6 * j + 5)

Rfc4648Base64Url(bytes) ==
  [j \in 1..((8 * Len(bytes) + 5) \div 6) |->
     LET v == Sextet(bytes, j - 1)
     IN IF v = 62 THEN Dash ELSE IF v = 63 THEN Underscore ELSE v]

\* RFC 7636 S256: BASE64URL-ENCODE(SHA256(ASCII(code_verifier)))
Rfc7636S256(v) == Rfc4648Base64Url(Sha256([i \in 1..Len(v) |-> AsciiOf(v[i])]))

\* C32: the challenge generateCodeChallenge returns for a verifier is the
\* RFC 7636 S256 transform of that verifier, and the code_challenge of the
\* authorization URL is the S256 transform of the verifier that the same
\* startLogin wrote to the store.
C32_ChallengeIsS256 ==
  /\ pkce.pc \in {"pair", "state", "url"}
       => pkce.codeChallenge = Rfc7636S256(pkce.codeVerifier)
  /\ pkce.pc = "url"
       => /\ pkce.stored = pkce.codeVerifier
          /\ pkce.urlChallenge = Rfc7636S256(pkce.stored)

\* C32 witness: an authorization URL was built whose challenge has 43
\* characters, a '-' or '_' among them, for a digest whose Base64 form is
\* padded and has '+' or '/'.
C32_Witness ==
  /\ pkce.pc = "url"
  /\ Len(pkce.urlChallenge) = 43
  /\ Len(digestStringAsync(pkce.stored)) = 44
  /\ \E i \in 1..44 : digestStringAsync(pkce.stored)[i] \in {Plus, Slash}
  /\ \E i \in 1..43 : pkce.urlChallenge[i] \in {Dash, Underscore}

\* C33 as stated: every call waiting in refreshQueue is eventually resolved
\* (and sent again) or rejected, the call that is queued while the owner of a
\* failed refresh awaits logout() included.
C33_QueuedIsSettled ==
  \A r \in Req : (req[r].pc = "queued") ~> (req[r].pc # "queued")

\* C34 as stated: an API call carries a bearer token only to the origin that
\* issued the token, and a refresh request carries a refresh token only to
\* the origin that issued it.
C34_TokensOnlyToIssuer ==
  \A r \in Req :
    /\ (req[r].pc = "sent" /\ req[r].auth \notin {NoAuth, Null})
         => <<req[r].auth, req[r].baseURL>> \in issuer
    /\ req[r].pc = "rt_post"
         => <<req[r].rtRefreshToken, StripSlash(req[r].rtVaultUrl)>> \in issuer

\* C35 as stated: once logout() has deleted the session, no access token is
\* stored again (no login happens here), whatever responses arrive later; so
\* an access token is never stored without a vault origin.
C35_NoTokenAfterLogout ==
  /\ [](store.accessToken # Null => store.vaultUrl # Null)
  /\ [][store.accessToken = Null => store'.accessToken = Null]_vars

\* C36 as stated: when the proactive refresh of a call fails after a
\* sibling's refresh has succeeded and stored a new access token and a new
\* refresh token in place of the one the call sent, the new tokens stay
\* stored: the client is not logged out.
C36_SiblingFailureKeepsTokens ==
  [][\A r \in Req :
       (/\ req[r].pc = "rt_post" /\ req[r].rtCaller = "gat"
        /\ req'[r].pc = "gat_logout"
        /\ store.refreshToken \notin {Null, req[r].rtRefreshToken}
        /\ store.accessToken # Null
        /\ store.accessToken = lastStored.access_token
        /\ <<store.accessToken, StripSlash(req[r].rtVaultUrl)>> \in issuer)
         => /\ store'.accessToken = store.accessToken
            /\ store'.vaultUrl = store.vaultUrl
            /\ isAuthenticated(store')
    ]_vars


\* C37 as stated: a request that is on the wire never carries the header
\* `Authorization: Bearer null`: the header of a sent request is absent or
\* holds a token, also for the owner of a 401 recovery and for the queued
\* requests it releases when getAccessToken() returned null after the refresh.
C37_NoBearerNull ==
  \A r \in Req : req[r].pc = "sent" => req[r].auth # Null


\* A callback is handed to handleCallback and passes its parameter checks.
CallbackArrives(f) == flow[f].pc # "hc_state" /\ flow'[f].pc = "hc_state"

\* handleCallback finishes its comparison of the states.
CallbackJudged(f) == flow[f].pc = "hc_state" /\ flow'[f].pc # "hc_state"

\* C38 as stated: handleCallback accepts only the callback of the most recent
\* startLogin.  The state it compares is the one stored when the callback
\* arrives; the callback is accepted exactly when a state is stored and the
\* callback carries it, and fails with the state mismatch otherwise: so a
\* callback with the first attempt's state after a second startLogin stored
\* its own, and every callback while no state is stored.
C38_OnlyLatestStateAccepted ==
  /\ [][\A f \in Flows :
         CallbackArrives(f) => flow'[f].storedState = store.state]_vars
  /\ [][\A f \in Flows :
         CallbackJudged(f) =>
           IF /\ flow[f].storedState # Null
              /\ flow[f].url.state = flow[f].storedState
           THEN flow'[f].pc = "ex_read" /\ flow'[f].code = flow[f].url.code
           ELSE /\ flow'[f].outcome = "error"
                /\ flow'[f].errKind = "state_mismatch"]_vars

\* A callback with the first attempt's state was rejected after the second
\* startLogin had stored its state.
C38_Witness ==
  \E f \in Flows :
    /\ flow[f].outcome = "error" /\ flow[f].errKind = "state_mismatch"
    /\ flow[f].url.state = 1 /\ flow[f].storedState = 2


\* Entry d of the stored list is still stored, unchanged, after the step.
StaysStored(d) == \E k \in 1..Len(destinations') : destinations'[k] = d

\* C39 as stated: no update of the destination list is lost to an
\* overlapping call.  The write of an addDestination keeps every stored
\* entry of another normalized origin, and the write of a removeDestination
\* keeps every stored entry with another id, also those that a call which
\* overlaps it stored after its read.
C39_NoLostUpdate ==
  [][\A p \in DestCallers :
       \A i \in 1..Len(destinations) :
         /\ (/\ destOp[p].pc = "add_read" /\ destOp'[p].pc = "add_written"
             /\ destinations[i].server # destOp[p].normalized)
              => StaysStored(destinations[i])
         /\ (/\ destOp[p].pc = "rm_read" /\ destOp'[p].pc = "rm_written"
             /\ destinations[i].id # destOp[p].id)
              => StaysStored(destinations[i])
    ]_vars

====
